---- MODULE Spec2Model ----
(***************************************************************************)
(* A model of the smart-gym backend core: the exercise session family      *)
(* (backend/exercises), the label stabilizer                                *)
(* (backend/exercise_classifier/temporal_smoother.py) and the feedback      *)
(* engine (backend/feedback/engine.py).                                     *)
(*                                                                          *)
(* Units.  Joint angles are whole degrees.  Normalised image coordinates    *)
(* (wrist height, bar drop) are hundredths, so 0.02 is 2; the lat pull-down *)
(* threshold, which multiplies by 0.25, is compared in quarter-hundredths.  *)
(* Timestamps are whole seconds.  Python's None is the number None (-1),    *)
(* which is no angle, no coordinate and no timestamp of the model.          *)
(*                                                                          *)
(* A frame is the tuple of quantities an update reads from the landmarks:   *)
(* the joint angles angle_3pts returns (None for a zero-length ray) and,    *)
(* for each geometric form check, whether its measured quantity exceeds the *)
(* check's threshold.  The per-call "extra" diagnostics and the wall-clock  *)
(* fields started_at / last_update_ts are not part of the model.            *)
(***************************************************************************)
EXTENDS Integers, Sequences, FiniteSets, TLC

VARIABLES
    session,        \* the exercise session object (its fields, by variant)
    frame,          \* the input of the last update call
    result,         \* the value the last update call returned
    lastExtreme,    \* history: side of the band of the last metric outside it
    sweeps,         \* history: completed low-then-high sweeps of the metric
    wristSeen,      \* history: the wrist heights of the frames after the first
    buffer,         \* the label stabilizer's window (smoother.buffer)
    sm_before,      \* the window before the last smoother.update call
    sm_prediction,  \* the prediction passed to the last smoother.update call
    sm_stable,      \* the label the last smoother.update call returned
    sm_calls,       \* whether smoother.update has been called (0 or 1)
    last_spoken_issue,  \* FeedbackEngine.last_spoken_issue
    last_spoken_time,   \* FeedbackEngine.last_spoken_time
    clock,          \* the wall clock, time.time()
    call,           \* the last should_speak call: arguments, fields read, answer
    spokenAt,       \* history: per issue, the time of its last accepted decision
    issue_history,  \* FeedbackEngine.issue_history, a deque of issue lists
    top_issue,      \* the value the last get_top_issue call returned
    fb_op,          \* the last FeedbackEngine history operation called
    logic_call,     \* the last call into exercise_logic: arguments and result
    predict_call,   \* the last ExerciseClassifier.predict call: probs and result
    own_scheduled,  \* per AutoTrainer instance, its own _scheduled attribute
    lock,           \* AutoTrainer._lock: "free" or the thread that holds it
    caller_in,      \* per calling thread, the instance whose with-block it is in
    jobs,           \* per instance, its _run_retrain threads by position
    artifact,       \* the file at MODEL_PATH: whose fit it holds, and
                    \* history: the last _run_retrain attempt and the file
                    \* it found
    streams,        \* per stream of main.py: status, frames read, the label
                    \* returned last, and history: the window and the label
                    \* of a stabilizer fed by this stream alone
    video,          \* VideoProcessor.process: frames read, the timeline entry
                    \* of the last frame, history: the run of absent frames
    pv,             \* process_video of main.py: the locals of the request and
                    \* history of the frames it has read
    angle_call,     \* the last angle_3pts call: its points, what it returned
                    \* and what it returns with a and c swapped
    mark_call,      \* the last mark_spoken call: its arguments, the engine's
                    \* two fields before it, whether it repeats the call before
    pose,           \* MediaPipePoseEstimator: the visibility filter's window,
                    \* what the last infer returned, history of the frames
    tie_call,       \* a smoother window and an issue history, with what
                    \* update and get_top_issue answer on them
    engine,         \* one FeedbackEngine used through all its operations:
                    \* how many calls it has taken and which was the last
    tts             \* TTSFeedbackSpeaker: its backend, who holds _lock, and
                    \* per speak call its text, whether it has returned and
                    \* where its thread is

sessionVars == <<session, frame, result, lastExtreme, sweeps, wristSeen>>

smootherVars == <<buffer, sm_before, sm_prediction, sm_stable, sm_calls>>

speakVars == <<last_spoken_issue, last_spoken_time, clock, call, spokenAt>>

feedbackVars == <<issue_history, top_issue, fb_op>>

logicVars == <<logic_call>>

classifierVars == <<predict_call>>

trainerVars == <<own_scheduled, lock, caller_in, jobs, artifact>>

streamVars == <<streams>>

videoVars == <<video>>

pipelineVars == <<pv>>

angleVars == <<angle_call>>

markVars == <<mark_call>>

poseVars == <<pose>>

tieVars == <<tie_call>>

ttsVars == <<tts>>

engineVars == <<engine>>

vars ==
    <<sessionVars, smootherVars, speakVars, feedbackVars, logicVars,
      classifierVars, trainerVars, streamVars, videoVars, pipelineVars,
      angleVars, markVars, poseVars, tieVars, ttsVars, engineVars>>

\* the components that do not take part in a step keep their state
Idle(running) ==
    /\ IF "session" \in running THEN TRUE ELSE UNCHANGED sessionVars
    /\ IF "smoother" \in running THEN TRUE ELSE UNCHANGED smootherVars
    /\ IF "speak" \in running THEN TRUE ELSE UNCHANGED speakVars
    /\ IF "feedback" \in running THEN TRUE ELSE UNCHANGED feedbackVars
    /\ IF "logic" \in running THEN TRUE ELSE UNCHANGED logicVars
    /\ IF "classifier" \in running THEN TRUE ELSE UNCHANGED classifierVars
    /\ IF "trainer" \in running THEN TRUE ELSE UNCHANGED trainerVars
    /\ IF "streams" \in running THEN TRUE ELSE UNCHANGED streamVars
    /\ IF "video" \in running THEN TRUE ELSE UNCHANGED videoVars
    /\ IF "pipeline" \in running THEN TRUE ELSE UNCHANGED pipelineVars
    /\ IF "angles" \in running THEN TRUE ELSE UNCHANGED angleVars
    /\ IF "mark" \in running THEN TRUE ELSE UNCHANGED markVars
    /\ IF "pose" \in running THEN TRUE ELSE UNCHANGED poseVars
    /\ IF "tie" \in running THEN TRUE ELSE UNCHANGED tieVars
    /\ IF "tts" \in running THEN TRUE ELSE UNCHANGED ttsVars
    /\ IF "engine" \in running THEN TRUE ELSE UNCHANGED engineVars

-----------------------------------------------------------------------------
(* Bounds of the model *)

\* update is not called once rep_count has reached MaxReps
MaxReps == 2

\* a plank session is updated at most MaxPlankFrames times
MaxPlankFrames == 4

\* the wall clock stops at MaxTime seconds
MaxTime == 14

\* the points given to angle_3pts have coordinates 0..GridMax
GridMax == 2

\* the feedback engine used through all its operations takes at most
\* MaxEngineCalls calls
MaxEngineCalls == 3

\* the windows and histories compared for ties hold up to MaxTieLen entries
MaxTieLen == 3

\* a pose estimator is given at most MaxPoseFrames frames
MaxPoseFrames == 8

\* a video uploaded to /process-video has at most MaxUploadFrames frames
MaxUploadFrames == 5

\* a processed video has at most MaxVideoFrames frames
MaxVideoFrames == 5

\* a stream of main.py reads at most MaxStreamFrames frames
MaxStreamFrames == 3

\* the feedback engine is built as FeedbackEngine(history_len,
\* min_persistence_frames) with a short window
history_len == 5
min_persistence_frames == 3

-----------------------------------------------------------------------------
(* Shared helpers *)

None == -1

\* a bounded buffer that drops the entry coming in once it is full
DequeAppend_KeepsOldest(q, x, n) == IF Len(q) >= n THEN q ELSE Append(q, x)

\* collections.deque(maxlen=n).append(x): the oldest entry is evicted
DequeAppend(q, x, n) ==
    LET a == Append(q, x) IN IF Len(a) > n THEN Tail(a) ELSE a

angle_history_size == 5

Min2(a, b) == IF a < b THEN a ELSE b

Max2(a, b) == IF a > b THEN a ELSE b

Abs(a) == IF a < 0 THEN 0 - a ELSE a

\* BaseExerciseSession.__init__
BaseExerciseSession(cls, name) ==
    [cls |-> cls, name |-> name, rep_count |-> 0, state |-> "INIT",
     angle_history |-> <<>>]

\* the "return {rep_count, issues, extra}" that ends every update
Return(s, issues) ==
    [session |-> s, result |-> [rep_count |-> s.rep_count, issues |-> issues]]

\* an early return that records the unresolved angle in the history
MissingJoint_Appending(s, issue) ==
    Return([s EXCEPT !.angle_history = DequeAppend(@, None, angle_history_size)],
           <<issue>>)

\* an early return that starts the count over when the joints are lost
MissingJoint_Restarts(s, issue) ==
    Return([s EXCEPT !.rep_count = 0], <<issue>>)

\* the early return of the missing-joint branch: one issue, session untouched
MissingJoint(s, issue) ==
    Return(s, <<issue>>)

\* the frames of a two-sided variant whose two angles are resolved: both sides
\* at metric m, skewed by d to m - d and m + d
BothSides(cls, metrics, skews) ==
    {[cls |-> cls, left |-> m - d, right |-> m + d] : m \in metrics, d \in skews}

\* ... and those where angle_3pts returned None for one side or for both
OneSideMissing(cls, metrics) ==
    {[cls |-> cls, left |-> None, right |-> m] : m \in metrics}
    \cup {[cls |-> cls, left |-> m, right |-> None] : m \in metrics}
    \cup {[cls |-> cls, left |-> None, right |-> None]}

Skews == {0, 10}

-----------------------------------------------------------------------------
(* SquatSession, backend/exercises/squat.py *)

knee_angle_up == 160
knee_angle_down == 100
max_knee_asymmetry_deg == 15
squat_depth_angle == 130

SquatSession ==
    [BaseExerciseSession("squat", "Squat") EXCEPT !.state = "UP"]

SquatAngles == {80, 120, 170}

SquatFrames ==
    {f @@ [lean |-> b] : f \in BothSides("squat", SquatAngles, Skews),
                         b \in BOOLEAN}
    \cup {f @@ [lean |-> FALSE] : f \in OneSideMissing("squat", SquatAngles)}

Squat_avg(a, b) == IF a = None \/ b = None THEN None ELSE (a + b) \div 2

\* a rep logic that also counts the way down
SquatRepLogic_CountsForward(s, knee_angle) ==
    IF s.state = "UP"
    THEN IF knee_angle < knee_angle_down
         THEN [s EXCEPT !.state = "DOWN", !.rep_count = @ + 1]
         ELSE s
    ELSE IF s.state = "DOWN"
         THEN IF knee_angle > knee_angle_up
              THEN [s EXCEPT !.rep_count = @ + 1, !.state = "UP"]
              ELSE s
         ELSE s

SquatRepLogic(s, knee_angle) ==
    IF s.state = "UP"
    THEN IF knee_angle < knee_angle_down
         THEN [s EXCEPT !.state = "DOWN"]
         ELSE s
    ELSE IF s.state = "DOWN"
         THEN IF knee_angle > knee_angle_up
              THEN [s EXCEPT !.rep_count = @ + 1, !.state = "UP"]
              ELSE s
         ELSE s

SquatFormChecks(f, knee_angle) ==
    (IF knee_angle > squat_depth_angle
     THEN <<"Go deeper - bend your knees more for a full squat.">> ELSE <<>>)
    \o (IF f.lean
        THEN <<"Try to keep your chest more upright - avoid leaning too far forward.">>
        ELSE <<>>)
    \o (IF Abs(f.left - f.right) > max_knee_asymmetry_deg
        THEN <<"Keep both knees moving symmetrically - avoid letting one knee cave in.">>
        ELSE <<>>)

SquatUpdate(s, f) ==
    IF f.left = None \/ f.right = None
    THEN MissingJoint(s, "Knee joints not clearly visible.")
    ELSE LET knee_angle == Squat_avg(f.left, f.right) IN
         IF knee_angle = None
         THEN MissingJoint(s, "Cannot compute knee angle.")
         ELSE LET s1 == [s EXCEPT !.angle_history =
                             DequeAppend(@, knee_angle, angle_history_size)]
                  s2 == SquatRepLogic(s1, knee_angle)
              IN  Return(s2, SquatFormChecks(f, knee_angle))

-----------------------------------------------------------------------------
(* PushupSession, backend/exercises/pushup.py *)

pushup_elbow_angle_top == 160
pushup_elbow_angle_bottom == 90
min_depth_angle == 110

PushupSession ==
    [BaseExerciseSession("pushup", "Push-up") EXCEPT !.state = "TOP"]
    @@ [current_rep_min_angle |-> None]

PushupAngles == {70, 120, 170}

\* hip: hip_offset against hip_high_thresh / hip_low_thresh;
\* hands: hand_width / shoulder_width against the two width factors
PushupForms ==
    {[hip |-> "ok", hands |-> "ok"], [hip |-> "sag", hands |-> "wide"]}

PushupFrames ==
    {f @@ g : f \in BothSides("pushup", PushupAngles, Skews), g \in PushupForms}
    \cup {f @@ [hip |-> "pike", hands |-> "close"] :
            f \in OneSideMissing("pushup", PushupAngles)}

Pushup_avg(a, b) == (a + b) \div 2

\* a rep logic whose return branch counts the rep and forgets to set TOP
PushupRepLogic_StaysBottom(s, elbow_angle) ==
    IF s.state = "TOP"
    THEN IF elbow_angle < pushup_elbow_angle_bottom
         THEN [session |-> [s EXCEPT !.state = "BOTTOM",
                                     !.current_rep_min_angle = elbow_angle],
               issues |-> <<>>]
         ELSE [session |-> s, issues |-> <<>>]
    ELSE IF elbow_angle > pushup_elbow_angle_top
         THEN [session |-> [s EXCEPT !.rep_count = @ + 1,
                                     !.current_rep_min_angle = None],
               issues |-> <<>>]
         ELSE [session |-> s, issues |-> <<>>]

\* the REP STATE MACHINE block: returns the session and the issues it adds
PushupRepLogic(s, elbow_angle) ==
    IF s.state = "TOP"
    THEN IF elbow_angle < pushup_elbow_angle_bottom
         THEN [session |-> [s EXCEPT !.state = "BOTTOM",
                                     !.current_rep_min_angle = elbow_angle],
               issues |-> <<>>]
         ELSE [session |-> s, issues |-> <<>>]
    ELSE IF s.state = "BOTTOM"
         THEN LET s1 == IF s.current_rep_min_angle = None
                           \/ elbow_angle < s.current_rep_min_angle
                        THEN [s EXCEPT !.current_rep_min_angle = elbow_angle]
                        ELSE s
              IN  IF elbow_angle > pushup_elbow_angle_top
                  THEN [session |-> [s1 EXCEPT !.rep_count = @ + 1,
                                               !.state = "TOP",
                                               !.current_rep_min_angle = None],
                        issues |->
                          IF s1.current_rep_min_angle # None
                             /\ s1.current_rep_min_angle > min_depth_angle
                          THEN <<"Go lower - bend your elbows more for full push-ups.">>
                          ELSE <<>>]
                  ELSE [session |-> s1, issues |-> <<>>]
         ELSE [session |-> s, issues |-> <<>>]

PushupFormChecks(f) ==
    (IF f.hip = "pike"
     THEN <<"Avoid piking - lower your hips to form a straight line.">>
     ELSE IF f.hip = "sag"
          THEN <<"Avoid sagging - tighten your core and lift your hips slightly.">>
          ELSE <<>>)
    \o (IF f.hands = "close"
        THEN <<"Hands are too close - place them slightly wider than shoulders.">>
        ELSE IF f.hands = "wide"
             THEN <<"Hands are too wide - bring them closer to shoulder-width.">>
             ELSE <<>>)

PushupUpdate(s, f) ==
    IF f.left = None \/ f.right = None
    THEN MissingJoint(s, "Elbows not clearly visible.")
    ELSE LET elbow_angle == Pushup_avg(f.left, f.right)
             s1 == [s EXCEPT !.angle_history =
                        DequeAppend(@, elbow_angle, angle_history_size)]
             r == PushupRepLogic(s1, elbow_angle)
         IN  Return(r.session, r.issues \o PushupFormChecks(f))

-----------------------------------------------------------------------------
(* BicepCurlSession, backend/exercises/bicep_curl.py *)

curl_elbow_angle_bottom == 160
curl_elbow_angle_top == 50
curl_full_extension_angle == 150
curl_full_contraction_angle == 60
max_shoulder_movement == 5

BicepCurlSession ==
    [BaseExerciseSession("bicep_curl", "Bicep curl") EXCEPT !.state = "BOTTOM"]
    @@ [current_rep_min_angle |-> None, current_rep_max_angle |-> None,
        ref_shoulder |-> None]

BicepCurlAngles == {40, 100, 170}

\* the tracked shoulder's position; only its x varies here
ShoulderXs == {50, 58}

\* angle: elbow angle of the tracked arm; wrist_bent: wrist_bend outside
\* 90 -+ max_wrist_bend_deg
BicepCurlFrames ==
    {[cls |-> "bicep_curl", angle |-> a, shoulder |-> x, wrist_bent |-> w] :
        a \in BicepCurlAngles \cup {None}, x \in ShoulderXs, w \in BOOLEAN}

\* a tracker whose maximum stays at the first angle of the rep
BicepCurlTrack_FirstAsMax(s, elbow_angle) ==
    LET s1 == IF s.current_rep_min_angle = None
                 \/ elbow_angle < s.current_rep_min_angle
              THEN [s EXCEPT !.current_rep_min_angle = elbow_angle] ELSE s
    IN  IF s1.current_rep_max_angle = None
        THEN [s1 EXCEPT !.current_rep_max_angle = elbow_angle] ELSE s1

\* the min / max trackers of the current rep, updated on every resolved frame
BicepCurlTrack(s, elbow_angle) ==
    LET s1 == IF s.current_rep_min_angle = None
                 \/ elbow_angle < s.current_rep_min_angle
              THEN [s EXCEPT !.current_rep_min_angle = elbow_angle] ELSE s
    IN  IF s1.current_rep_max_angle = None
           \/ elbow_angle > s1.current_rep_max_angle
        THEN [s1 EXCEPT !.current_rep_max_angle = elbow_angle] ELSE s1

BicepCurlRepLogic(s, elbow_angle) ==
    IF s.state = "BOTTOM"
    THEN IF elbow_angle < curl_elbow_angle_top
         THEN [session |-> [s EXCEPT !.state = "TOP"], issues |-> <<>>]
         ELSE [session |-> s, issues |-> <<>>]
    ELSE IF s.state = "TOP"
         THEN IF elbow_angle > curl_elbow_angle_bottom
              THEN [session |-> [s EXCEPT !.rep_count = @ + 1,
                                          !.state = "BOTTOM",
                                          !.current_rep_min_angle = None,
                                          !.current_rep_max_angle = None],
                    issues |->
                      (IF s.current_rep_max_angle # None
                          /\ s.current_rep_max_angle < curl_full_extension_angle
                       THEN <<"Fully extend your arm at the bottom of each rep.">>
                       ELSE <<>>)
                      \o (IF s.current_rep_min_angle # None
                             /\ s.current_rep_min_angle > curl_full_contraction_angle
                          THEN <<"Curl higher - bring your hand closer to your shoulder.">>
                          ELSE <<>>)]
              ELSE [session |-> s, issues |-> <<>>]
         ELSE [session |-> s, issues |-> <<>>]

BicepCurlFormChecks(s, f) ==
    (IF s.ref_shoulder # None
        /\ Abs(f.shoulder - s.ref_shoulder) > max_shoulder_movement
     THEN <<"Avoid swinging your shoulder; keep your upper arm stable.">>
     ELSE <<>>)
    \o (IF f.wrist_bent
        THEN <<"Keep your wrist neutral - avoid excessive bending while curling.">>
        ELSE <<>>)

BicepCurlUpdate(s, f) ==
    LET s0 == IF s.ref_shoulder = None
              THEN [s EXCEPT !.ref_shoulder = f.shoulder] ELSE s
    IN  IF f.angle = None
        THEN MissingJoint(s0, "Elbow not clearly visible.")
        ELSE LET s1 == [s0 EXCEPT !.angle_history =
                            DequeAppend(@, f.angle, angle_history_size)]
                 s2 == BicepCurlTrack(s1, f.angle)
                 r == BicepCurlRepLogic(s2, f.angle)
             IN  Return(r.session, r.issues \o BicepCurlFormChecks(r.session, f))

-----------------------------------------------------------------------------
(* DeadliftSession, backend/exercises/deadlift.py *)

hip_angle_top == 160
hip_angle_bottom == 70
max_knee_bend_for_deadlift == 120

DeadliftSession ==
    [BaseExerciseSession("deadlift", "Deadlift") EXCEPT !.state = "TOP"]

DeadliftHipAngles == {60, 110, 170}

\* left / right are the hip angles; the knee angles and the geometric checks
\* (spine_angle, bar_distance, knee_forward over their thresholds) come along
DeadliftKnees ==
    {[left_knee |-> 150, right_knee |-> 150, spine |-> FALSE, bar |-> FALSE,
      knee_forward |-> FALSE],
     [left_knee |-> 100, right_knee |-> 110, spine |-> TRUE, bar |-> TRUE,
      knee_forward |-> TRUE]}

DeadliftKneesMissing ==
    {[left_knee |-> None, right_knee |-> 150, spine |-> FALSE, bar |-> FALSE,
      knee_forward |-> FALSE],
     [left_knee |-> 150, right_knee |-> None, spine |-> FALSE, bar |-> FALSE,
      knee_forward |-> FALSE]}

DeadliftFrames ==
    {f @@ g : f \in BothSides("deadlift", DeadliftHipAngles, Skews),
              g \in DeadliftKnees \cup DeadliftKneesMissing}
    \cup {f @@ g : f \in OneSideMissing("deadlift", DeadliftHipAngles),
                   g \in {k \in DeadliftKnees : ~k.spine}}

DeadliftRepLogic(s, hip_angle) ==
    IF s.state = "TOP"
    THEN IF hip_angle < hip_angle_bottom
         THEN [s EXCEPT !.state = "BOTTOM"]
         ELSE s
    ELSE IF s.state = "BOTTOM"
         THEN IF hip_angle > hip_angle_top
              THEN [s EXCEPT !.rep_count = @ + 1, !.state = "TOP"]
              ELSE s
         ELSE s

DeadliftFormChecks(f, knee_angle) ==
    (IF f.spine
     THEN <<"Keep a neutral spine - avoid rounding your back during the lift.">>
     ELSE <<>>)
    \o (IF knee_angle < max_knee_bend_for_deadlift
        THEN <<"Push your hips back more - avoid turning deadlifts into squats.">>
        ELSE <<>>)
    \o (IF f.bar
        THEN <<"Keep the bar closer to your body - slide it along your legs/shins.">>
        ELSE <<>>)
    \o (IF f.knee_forward
        THEN <<"Avoid pushing your knees too far forward; focus on hinging at the hips.">>
        ELSE <<>>)

DeadliftUpdate(s, f) ==
    IF f.left = None \/ f.right = None
       \/ f.left_knee = None \/ f.right_knee = None
    THEN MissingJoint(s, "Key joints not clearly visible.")
    ELSE LET hip_angle == (f.left + f.right) \div 2
             knee_angle == (f.left_knee + f.right_knee) \div 2
             s1 == [s EXCEPT !.angle_history =
                        DequeAppend(@, hip_angle, angle_history_size)]
             s2 == DeadliftRepLogic(s1, hip_angle)
         IN  Return(s2, DeadliftFormChecks(f, knee_angle))

-----------------------------------------------------------------------------
(* LungeSession, backend/exercises/lunge.py *)

lunge_knee_angle_top == 165
lunge_knee_angle_bottom == 90
max_lateral_sway == 5

LungeSession ==
    [BaseExerciseSession("lunge", "Lunge") EXCEPT !.state = "TOP"]
    @@ [ref_shoulder_center |-> None]

LungeAngles == {80, 120, 170}

\* angle: front knee angle; shoulder: x of the shoulder centre; the other
\* fields: knee_toe_offset, valgus_offset, torso_angle_deg over their thresholds
LungeFrames ==
    {[cls |-> "lunge", angle |-> a, shoulder |-> x, knee_over_toe |-> b,
      valgus |-> b, torso |-> b] :
        a \in LungeAngles \cup {None}, x \in ShoulderXs, b \in BOOLEAN}

\* a rep logic whose return branch falls back to the base class's phase
LungeRepLogic_ReturnsToInit(s, front_knee_angle) ==
    IF s.state = "TOP"
    THEN IF front_knee_angle < lunge_knee_angle_bottom
         THEN [s EXCEPT !.state = "BOTTOM"]
         ELSE s
    ELSE IF front_knee_angle > lunge_knee_angle_top
         THEN [s EXCEPT !.rep_count = @ + 1, !.state = "INIT"]
         ELSE s

\* the rep state machine block of LungeSession.update
LungeRepLogic(s, front_knee_angle) ==
    IF s.state = "TOP"
    THEN IF front_knee_angle < lunge_knee_angle_bottom
         THEN [s EXCEPT !.state = "BOTTOM"]
         ELSE s
    ELSE IF s.state = "BOTTOM"
         THEN IF front_knee_angle > lunge_knee_angle_top
              THEN [s EXCEPT !.rep_count = @ + 1, !.state = "TOP"]
              ELSE s
         ELSE s

LungeFormChecks(s, f) ==
    (IF f.knee_over_toe
     THEN <<"Keep your front knee behind your toes when lowering.">> ELSE <<>>)
    \o (IF f.valgus
        THEN <<"Avoid knee valgus - keep your knee tracking straight.">>
        ELSE <<>>)
    \o (IF f.torso
        THEN <<"Keep your torso upright; avoid leaning too far forward.">>
        ELSE <<>>)
    \o (IF Abs(f.shoulder - s.ref_shoulder_center) > max_lateral_sway
        THEN <<"Try to stay balanced - reduce side-to-side movement.">>
        ELSE <<>>)

LungeUpdate(s, f) ==
    LET s0 == IF s.ref_shoulder_center = None
              THEN [s EXCEPT !.ref_shoulder_center = f.shoulder] ELSE s
    IN  IF f.angle = None
        THEN MissingJoint(s0, "Front knee not clearly visible.")
        ELSE LET s1 == [s0 EXCEPT !.angle_history =
                            DequeAppend(@, f.angle, angle_history_size)]
                 s2 == LungeRepLogic(s1, f.angle)
             IN  Return(s2, LungeFormChecks(s2, f))

-----------------------------------------------------------------------------
(* BenchPressSession, backend/exercises/bench_press.py *)

bench_elbow_angle_top == 160
bench_elbow_angle_bottom == 80
bench_rom_margin == 10
min_bar_drop == 6
max_bar_horizontal_drift == 8

BenchPressSession ==
    [BaseExerciseSession("bench_press", "Bench press") EXCEPT !.state = "TOP"]
    @@ [ref_hand_mid_x |-> None, current_rep_min_elbow_angle |-> None,
        current_rep_max_drop |-> 0]

BenchPressAngles == {70, 120, 170}

\* hand_x: x of the hand centre; bar_drop: hand_center.y - shoulder_center.y;
\* flare: avg_flare over max_elbow_flare_deg
BenchPressGeometry ==
    {[hand_x |-> 50, bar_drop |-> 10, flare |-> FALSE],
     [hand_x |-> 60, bar_drop |-> 3, flare |-> TRUE]}

\* left / right: the elbow angles
BenchPressFrames ==
    {f @@ g : f \in BothSides("bench_press", BenchPressAngles, Skews),
              g \in BenchPressGeometry}
    \cup {f @@ g : f \in OneSideMissing("bench_press", BenchPressAngles),
                   g \in BenchPressGeometry}

BenchPressTrack(s, elbow_angle, bar_drop) ==
    LET s1 == IF s.current_rep_min_elbow_angle = None
                 \/ elbow_angle < s.current_rep_min_elbow_angle
              THEN [s EXCEPT !.current_rep_min_elbow_angle = elbow_angle]
              ELSE s
    IN  [s1 EXCEPT !.current_rep_max_drop = Max2(@, bar_drop)]

\* a rep logic that carries the largest bar drop over into the next rep
BenchPressRepLogic_KeepsMaxDrop(s, elbow_angle) ==
    IF s.state = "TOP"
    THEN IF elbow_angle < bench_elbow_angle_bottom
         THEN [session |-> [s EXCEPT !.state = "BOTTOM"], issues |-> <<>>]
         ELSE [session |-> s, issues |-> <<>>]
    ELSE IF s.state = "BOTTOM"
         THEN IF elbow_angle > bench_elbow_angle_top
              THEN [session |-> [s EXCEPT !.rep_count = @ + 1,
                                          !.state = "TOP",
                                          !.current_rep_min_elbow_angle = None],
                    issues |->
                      (IF s.current_rep_min_elbow_angle # None
                          /\ s.current_rep_min_elbow_angle
                               > bench_elbow_angle_bottom + bench_rom_margin
                       THEN <<"Lower the bar more for a full range of motion.">>
                       ELSE <<>>)
                      \o (IF s.current_rep_max_drop < min_bar_drop
                          THEN <<"Bring the bar closer to your chest at the bottom of the rep.">>
                          ELSE <<>>)]
              ELSE [session |-> s, issues |-> <<>>]
         ELSE [session |-> s, issues |-> <<>>]

BenchPressRepLogic(s, elbow_angle) ==
    IF s.state = "TOP"
    THEN IF elbow_angle < bench_elbow_angle_bottom
         THEN [session |-> [s EXCEPT !.state = "BOTTOM"], issues |-> <<>>]
         ELSE [session |-> s, issues |-> <<>>]
    ELSE IF s.state = "BOTTOM"
         THEN IF elbow_angle > bench_elbow_angle_top
              THEN [session |-> [s EXCEPT !.rep_count = @ + 1,
                                          !.state = "TOP",
                                          !.current_rep_min_elbow_angle = None,
                                          !.current_rep_max_drop = 0],
                    issues |->
                      (IF s.current_rep_min_elbow_angle # None
                          /\ s.current_rep_min_elbow_angle
                               > bench_elbow_angle_bottom + bench_rom_margin
                       THEN <<"Lower the bar more for a full range of motion.">>
                       ELSE <<>>)
                      \o (IF s.current_rep_max_drop < min_bar_drop
                          THEN <<"Bring the bar closer to your chest at the bottom of the rep.">>
                          ELSE <<>>)]
              ELSE [session |-> s, issues |-> <<>>]
         ELSE [session |-> s, issues |-> <<>>]

BenchPressFormChecks(s, f) ==
    (IF f.flare
     THEN <<"Tuck your elbows slightly - avoid excessive flaring out to the sides.">>
     ELSE <<>>)
    \o (IF Abs(f.hand_x - s.ref_hand_mid_x) > max_bar_horizontal_drift
        THEN <<"Press the bar in a more controlled, straight path over your mid-chest.">>
        ELSE <<>>)

BenchPressUpdate(s, f) ==
    LET s0 == IF s.ref_hand_mid_x = None
              THEN [s EXCEPT !.ref_hand_mid_x = f.hand_x] ELSE s
    IN  IF f.left = None \/ f.right = None
        THEN MissingJoint(s0, "Elbows not clearly visible.")
        ELSE LET elbow_angle == (f.left + f.right) \div 2
                 s1 == [s0 EXCEPT !.angle_history =
                            DequeAppend(@, elbow_angle, angle_history_size)]
                 s2 == BenchPressTrack(s1, elbow_angle, f.bar_drop)
                 r == BenchPressRepLogic(s2, elbow_angle)
             IN  Return(r.session, r.issues \o BenchPressFormChecks(r.session, f))

-----------------------------------------------------------------------------
(* LatPulldownSession, backend/exercises/lat_pulldown.py *)

\* bottom_fraction = 0.25 is one quarter; the default range 0.25 is 25
bottom_fraction_inverse == 4
default_range == 25
top_tolerance == 2

LatPulldownSession ==
    [BaseExerciseSession("lat_pulldown", "Lat pull-down") EXCEPT !.state = "TOP"]
    @@ [hand_top_y |-> None]

\* wrist heights (y grows downward)
WristYs == {15, 20, 21, 30, 60}

\* wr_y: y of the wrist centre; the other fields: lean_deg, elbow_drift_x over
\* their thresholds, wrist above nose - 0.03, shoulders above elbows - 0.05
LatPulldownFrames ==
    {[cls |-> "lat_pulldown", wr_y |-> y, lean |-> b, elbow_drift |-> b,
      above_chin |-> (y < 20), shrug |-> b] : y \in WristYs, b \in BOOLEAN}

\* wr_y > bottom_threshold, with
\*   bottom_threshold = hand_top_y + 0.25 * (total_range or 0.25),
\* both sides multiplied by four
LatAboveBottomThreshold(wr_y, hand_top_y) ==
    LET total_range == Abs(wr_y - hand_top_y) IN
    bottom_fraction_inverse * wr_y
        > bottom_fraction_inverse * hand_top_y
          + (IF total_range > 0 THEN total_range ELSE default_range)

LatNearTop(wr_y, hand_top_y) == wr_y <= hand_top_y + top_tolerance

LatPulldownRepLogic(s, wr_y) ==
    IF s.state = "TOP"
    THEN IF LatAboveBottomThreshold(wr_y, s.hand_top_y)
         THEN [s EXCEPT !.state = "BOTTOM"]
         ELSE s
    ELSE IF s.state = "BOTTOM"
         THEN IF LatNearTop(wr_y, s.hand_top_y)
              THEN [s EXCEPT !.rep_count = @ + 1, !.state = "TOP"]
              ELSE s
         ELSE s

LatPulldownFormChecks(f) ==
    (IF f.lean
     THEN <<"Avoid leaning back excessively - stay more upright.">> ELSE <<>>)
    \o (IF f.elbow_drift
        THEN <<"Keep elbows closer to your sides - pull straight down.">>
        ELSE <<>>)
    \o (IF f.above_chin
        THEN <<"Pull the bar only to chin level - not lower.">> ELSE <<>>)
    \o (IF f.shrug
        THEN <<"Relax your shoulders - avoid shrugging during the pull.">>
        ELSE <<>>)

\* an update that moves the top position up whenever the wrists go higher
LatPulldownUpdate_TracksTop(s, f) ==
    LET s0 == IF s.hand_top_y = None \/ f.wr_y < s.hand_top_y
              THEN [s EXCEPT !.hand_top_y = f.wr_y] ELSE s
        s1 == LatPulldownRepLogic(s0, f.wr_y)
    IN  Return(s1, LatPulldownFormChecks(f))

LatPulldownUpdate(s, f) ==
    LET s0 == IF s.hand_top_y = None
              THEN [s EXCEPT !.hand_top_y = f.wr_y] ELSE s
        s1 == LatPulldownRepLogic(s0, f.wr_y)
    IN  Return(s1, LatPulldownFormChecks(f))

-----------------------------------------------------------------------------
(* PlankSession, backend/exercises/plank.py *)

\* per-frame penalties, in tenths: 0.8, 0.5, 0.4
hip_penalty == 8
shoulder_penalty == 5
neck_penalty == 4
score_scale == 15
score_floor == 40
score_ceiling == 100

\* posture_score is the fraction num / den
PlankSession ==
    BaseExerciseSession("plank", "Plank")
    @@ [posture_score |-> [num |-> score_ceiling, den |-> 1],
        total_penalty |-> 0, frame_count |-> 0]

\* hip: hip_offset against hip_high_thresh / hip_low_thresh; shoulders:
\* shoulder_elbow_dx over its threshold; neck: neck_angle over its threshold
PlankFrames ==
    {[cls |-> "plank", hip |-> h, shoulders |-> a, neck |-> n] :
        h \in {"high", "ok", "low"}, a \in BOOLEAN, n \in BOOLEAN}

PlankPenalty(f) ==
    (IF f.hip = "high" \/ f.hip = "low" THEN hip_penalty ELSE 0)
    + (IF f.shoulders THEN shoulder_penalty ELSE 0)
    + (IF f.neck THEN neck_penalty ELSE 0)

PlankIssues(f) ==
    (IF f.hip = "high"
     THEN <<"Your hips are too high - lower them to form a straight line.">>
     ELSE IF f.hip = "low"
          THEN <<"Your hips are sagging - lift them to keep your body straight.">>
          ELSE <<>>)
    \o (IF f.shoulders
        THEN <<"Align your shoulders directly above your elbows.">> ELSE <<>>)
    \o (IF f.neck
        THEN <<"Keep your neck neutral - look slightly ahead or down.">>
        ELSE <<>>)

\* a score that subtracts the scaled total penalty, not its average
PlankScore_TotalPenalty(total, count) ==
    LET den == 10 * count
        raw == score_ceiling * den - score_scale * total * count
    IN  [num |-> Max2(score_floor * den, Min2(score_ceiling * den, raw)),
         den |-> den]

\* max(40, min(100, 100 - avg_penalty * 15)) with avg_penalty = total / count,
\* total in tenths: 100 - 15 * total / (10 * count), over the denominator
\* 10 * count
PlankScore(total, count) ==
    LET den == 10 * count
        raw == score_ceiling * den - score_scale * total
    IN  [num |-> Max2(score_floor * den, Min2(score_ceiling * den, raw)),
         den |-> den]

\* an update that counts only the frames with a posture penalty
PlankUpdate_CountsPenalisedFrames(s, f) ==
    LET s1 == [s EXCEPT !.frame_count =
                            IF PlankPenalty(f) > 0 THEN @ + 1 ELSE @,
                        !.total_penalty = @ + PlankPenalty(f)]
        s2 == IF s1.frame_count > 0
              THEN [s1 EXCEPT !.posture_score =
                                  PlankScore(s1.total_penalty, s1.frame_count)]
              ELSE s1
    IN  Return(s2, PlankIssues(f))

PlankUpdate(s, f) ==
    LET s1 == [s EXCEPT !.frame_count = @ + 1,
                        !.total_penalty = @ + PlankPenalty(f)]
        s2 == IF s1.frame_count > 0
              THEN [s1 EXCEPT !.posture_score =
                                  PlankScore(s1.total_penalty, s1.frame_count)]
              ELSE s1
    IN  Return(s2, PlankIssues(f))

-----------------------------------------------------------------------------
(* The session family: create_exercise_session and update, by variant *)

Sessions ==
    {SquatSession, PushupSession, BicepCurlSession, DeadliftSession,
     LungeSession, BenchPressSession, LatPulldownSession, PlankSession}

Frames(cls) ==
    CASE cls = "squat" -> SquatFrames
      [] cls = "pushup" -> PushupFrames
      [] cls = "bicep_curl" -> BicepCurlFrames
      [] cls = "deadlift" -> DeadliftFrames
      [] cls = "lunge" -> LungeFrames
      [] cls = "bench_press" -> BenchPressFrames
      [] cls = "lat_pulldown" -> LatPulldownFrames
      [] cls = "plank" -> PlankFrames

UpdateOf(s, f) ==
    CASE s.cls = "squat" -> SquatUpdate(s, f)
      [] s.cls = "pushup" -> PushupUpdate(s, f)
      [] s.cls = "bicep_curl" -> BicepCurlUpdate(s, f)
      [] s.cls = "deadlift" -> DeadliftUpdate(s, f)
      [] s.cls = "lunge" -> LungeUpdate(s, f)
      [] s.cls = "bench_press" -> BenchPressUpdate(s, f)
      [] s.cls = "lat_pulldown" -> LatPulldownUpdate(s, f)
      [] s.cls = "plank" -> PlankUpdate(s, f)

NoFrame == [cls |-> "none"]

NoResult == [rep_count |-> 0, issues |-> <<>>]

AngleVariants ==
    {"squat", "pushup", "bicep_curl", "deadlift", "lunge", "bench_press"}

RepVariants == AngleVariants \cup {"lat_pulldown"}

\* whether every joint angle the variant's update needs is defined in frame f
Resolved(f) ==
    CASE f.cls \in {"squat", "pushup", "bench_press"} ->
            f.left # None /\ f.right # None
      [] f.cls = "deadlift" ->
            /\ f.left # None /\ f.right # None
            /\ f.left_knee # None /\ f.right_knee # None
      [] f.cls \in {"bicep_curl", "lunge"} -> f.angle # None
      [] OTHER -> TRUE

\* the primary metric of a resolved frame of an angle-threshold variant
Metric(f) ==
    IF f.cls \in {"bicep_curl", "lunge"} THEN f.angle
    ELSE (f.left + f.right) \div 2

LowThreshold(cls) ==
    CASE cls = "squat" -> knee_angle_down
      [] cls = "pushup" -> pushup_elbow_angle_bottom
      [] cls = "bicep_curl" -> curl_elbow_angle_top
      [] cls = "deadlift" -> hip_angle_bottom
      [] cls = "lunge" -> lunge_knee_angle_bottom
      [] cls = "bench_press" -> bench_elbow_angle_bottom

HighThreshold(cls) ==
    CASE cls = "squat" -> knee_angle_up
      [] cls = "pushup" -> pushup_elbow_angle_top
      [] cls = "bicep_curl" -> curl_elbow_angle_bottom
      [] cls = "deadlift" -> hip_angle_top
      [] cls = "lunge" -> lunge_knee_angle_top
      [] cls = "bench_press" -> bench_elbow_angle_top

\* the phase a session starts in, and the other one
ExtendedPhase(cls) ==
    CASE cls = "squat" -> "UP"
      [] cls = "bicep_curl" -> "BOTTOM"
      [] OTHER -> "TOP"

FlexedPhase(cls) ==
    CASE cls = "squat" -> "DOWN"
      [] cls = "bicep_curl" -> "TOP"
      [] OTHER -> "BOTTOM"

\* the per-rep scratch accumulators of a session
Scratch(s) ==
    CASE s.cls = "pushup" -> <<s.current_rep_min_angle>>
      [] s.cls = "bicep_curl" ->
            <<s.current_rep_min_angle, s.current_rep_max_angle>>
      [] s.cls = "bench_press" ->
            <<s.current_rep_min_elbow_angle, s.current_rep_max_drop>>
      [] OTHER -> <<>>

SessionInit ==
    /\ session \in Sessions
    /\ frame = NoFrame
    /\ result = NoResult
    /\ lastExtreme = "none"
    /\ sweeps = 0
    /\ wristSeen = {}

\* the history variables, which read the inputs only
Observe(f) ==
    /\ IF f.cls \in AngleVariants /\ Resolved(f)
       THEN IF Metric(f) < LowThreshold(f.cls)
            THEN lastExtreme' = "low" /\ sweeps' = sweeps
            ELSE IF Metric(f) > HighThreshold(f.cls)
                 THEN /\ lastExtreme' = "high"
                      /\ sweeps' = IF lastExtreme = "low"
                                   THEN sweeps + 1 ELSE sweeps
                 ELSE UNCHANGED <<lastExtreme, sweeps>>
       ELSE UNCHANGED <<lastExtreme, sweeps>>
    /\ wristSeen' = IF f.cls = "lat_pulldown" /\ frame # NoFrame
                    THEN wristSeen \cup {f.wr_y} ELSE wristSeen

\* one call of session.update(keypoints)
Update ==
    /\ session.rep_count < MaxReps
    /\ session.cls = "plank" => session.frame_count < MaxPlankFrames
    /\ \E f \in Frames(session.cls) :
         LET u == UpdateOf(session, f) IN
         /\ session' = u.session
         /\ result' = u.result
         /\ frame' = f
         /\ Observe(f)

\* a session that is never updated
SessionRest ==
    /\ session = SquatSession
    /\ frame = NoFrame
    /\ result = NoResult
    /\ lastExtreme = "none"
    /\ sweeps = 0
    /\ wristSeen = {}

SessionNext == Update /\ Idle({"session"})

-----------------------------------------------------------------------------
(* TemporalExerciseSmoother, backend/exercise_classifier/temporal_smoother.py *)

window_size == 7

\* min_agreement = 0.6 as the fraction 6 / 10
min_agreement_num == 6
min_agreement_den == 10

\* the classifier's reject label (None)
NoLabel == "None"

Labels == {"squat", "lunge", "plank"}

Predictions == Labels \cup {NoLabel}

\* counts[p] of the vote count loop
CountOf(buf, p) == Cardinality({i \in DOMAIN buf : buf[i] = p})

\* the place of p among the keys of counts: dict keys keep insertion order,
\* which is the order of first occurrence in the buffer
FirstIndex(buf, p) ==
    CHOOSE i \in DOMAIN buf : buf[i] = p /\ \A j \in 1..(i - 1) : buf[j] # p

\* a max that keeps the last key of maximal count
MajorityLabel_LastWins(buf) ==
    LET keys == {buf[i] : i \in DOMAIN buf} IN
    CHOOSE p \in keys :
        \A q \in keys :
            \/ CountOf(buf, q) < CountOf(buf, p)
            \/ (CountOf(buf, q) = CountOf(buf, p)
                /\ FirstIndex(buf, p) >= FirstIndex(buf, q))

\* max(counts.items(), key=lambda x: x[1])[0]: the first key of maximal count
MajorityLabel(buf) ==
    LET keys == {buf[i] : i \in DOMAIN buf} IN
    CHOOSE p \in keys :
        \A q \in keys :
            \/ CountOf(buf, q) < CountOf(buf, p)
            \/ (CountOf(buf, q) = CountOf(buf, p)
                /\ FirstIndex(buf, p) <= FirstIndex(buf, q))

\* an update that answers None to a None prediction and keeps the window
SmootherUpdate_KeepsWindow(buf, prediction) ==
    IF prediction = NoLabel
    THEN [buffer |-> buf, ret |-> NoLabel]
    ELSE LET b == DequeAppend(buf, prediction, window_size)
             label == MajorityLabel(b)
             freq == CountOf(b, label)
         IN  [buffer |-> b,
              ret |-> IF min_agreement_den * freq >= min_agreement_num * Len(b)
                      THEN label ELSE NoLabel]

\* TemporalExerciseSmoother.update: the new buffer and the returned label
SmootherUpdate(buf, prediction) ==
    IF prediction = NoLabel
    THEN [buffer |-> <<>>, ret |-> NoLabel]
    ELSE LET b == DequeAppend(buf, prediction, window_size)
             label == MajorityLabel(b)
             freq == CountOf(b, label)
         IN  [buffer |-> b,
              ret |-> IF min_agreement_den * freq >= min_agreement_num * Len(b)
                      THEN label ELSE NoLabel]

SmootherInit ==
    /\ buffer = <<>>
    /\ sm_before = <<>>
    /\ sm_prediction = NoLabel
    /\ sm_stable = NoLabel
    /\ sm_calls = 0

\* one call of smoother.update(prediction)
SmootherCall ==
    \E p \in Predictions :
        LET u == SmootherUpdate(buffer, p) IN
        /\ buffer' = u.buffer
        /\ sm_stable' = u.ret
        /\ sm_prediction' = p
        /\ sm_before' = buffer
        /\ sm_calls' = Min2(sm_calls + 1, 1)

-----------------------------------------------------------------------------
(* FeedbackEngine: should_speak and mark_spoken, backend/feedback/engine.py *)

cooldown_sec == 3
repeat_same_issue_after == 10

\* last_spoken_issue before anything was spoken (None)
NoIssue == "None"

SpokenIssues == {"A", "B"}

\* what a caller may pass as issue: None, the empty string, an issue
IssueArgs == SpokenIssues \cup {NoIssue, ""}

\* "now = now or time.time()": None and 0 give the wall clock
NowOr(now, wall) == IF now = None \/ now = 0 THEN wall ELSE now

\* a should_speak without the global cooldown
should_speak_NoCooldown(issue, now, wall, spoken_issue, spoken_time) ==
    IF issue = NoIssue \/ issue = ""
    THEN FALSE
    ELSE LET t == NowOr(now, wall) IN
         IF spoken_issue = issue /\ t - spoken_time < repeat_same_issue_after
         THEN FALSE
         ELSE TRUE

\* a should_speak that applies the repeat interval to every issue
should_speak_RepeatForAll(issue, now, wall, spoken_issue, spoken_time) ==
    IF issue = NoIssue \/ issue = ""
    THEN FALSE
    ELSE LET t == NowOr(now, wall) IN
         IF t - spoken_time < cooldown_sec
         THEN FALSE
         ELSE IF spoken_issue # NoIssue
                 /\ t - spoken_time < repeat_same_issue_after
              THEN FALSE
              ELSE TRUE

\* FeedbackEngine.should_speak(issue, now), the engine's two fields passed in
should_speak(issue, now, wall, spoken_issue, spoken_time) ==
    IF issue = NoIssue \/ issue = ""
    THEN FALSE
    ELSE LET t == NowOr(now, wall) IN
         IF t - spoken_time < cooldown_sec
         THEN FALSE
         ELSE IF spoken_issue = issue
                 /\ t - spoken_time < repeat_same_issue_after
              THEN FALSE
              ELSE TRUE

\* a mark_spoken that stamps the wall clock whatever now is
mark_spoken_WallClock(issue, now, wall) ==
    [last_spoken_issue |-> issue, last_spoken_time |-> wall]

\* FeedbackEngine.mark_spoken(issue, now): the engine's two fields afterwards
mark_spoken(issue, now, wall) ==
    [last_spoken_issue |-> issue, last_spoken_time |-> NowOr(now, wall)]

NoCall ==
    [issue |-> NoIssue, now |-> 0, spoke |-> FALSE,
     spoken_issue |-> NoIssue, spoken_time |-> 0]

SpeakInit ==
    /\ last_spoken_issue = NoIssue
    /\ last_spoken_time = 0
    /\ clock = 1
    /\ call = NoCall
    /\ spokenAt = [i \in SpokenIssues |-> None]

\* time passes between two frames
Tick ==
    /\ clock < MaxTime
    /\ clock' = clock + 1
    /\ UNCHANGED <<last_spoken_issue, last_spoken_time, call, spokenAt>>

\* the caller's speak decision for one frame: should_speak(issue, now), and
\* mark_spoken(issue, now) exactly when it answered true
TrySpeak ==
    \E issue \in IssueArgs, now \in {None, clock} :
        LET ok == should_speak(issue, now, clock,
                               last_spoken_issue, last_spoken_time)
            m == mark_spoken(issue, now, clock)
        IN  /\ call' = [issue |-> issue, now |-> NowOr(now, clock), spoke |-> ok,
                        spoken_issue |-> last_spoken_issue,
                        spoken_time |-> last_spoken_time]
            /\ last_spoken_issue' = IF ok THEN m.last_spoken_issue
                                    ELSE last_spoken_issue
            /\ last_spoken_time' = IF ok THEN m.last_spoken_time
                                   ELSE last_spoken_time
            /\ spokenAt' = IF ok THEN [spokenAt EXCEPT ![issue] = NowOr(now, clock)]
                           ELSE spokenAt
            /\ UNCHANGED clock

\* the timestamps a caller passes to mark_spoken besides the wall clock: none,
\* zero, an early one and a late one
MarkTimes == {None, 0, 2, 9}

MarkInit == mark_call = [called |-> FALSE]

\* one call of mark_spoken(issue, now), whatever should_speak would say
MarkSpoken ==
    \E issue \in SpokenIssues, now \in MarkTimes \cup {clock} :
        LET m == mark_spoken(issue, now, clock) IN
        /\ last_spoken_issue' = m.last_spoken_issue
        /\ last_spoken_time' = m.last_spoken_time
        /\ mark_call' = [called |-> TRUE, issue |-> issue, now |-> now,
                         before |-> <<last_spoken_issue, last_spoken_time>>,
                         repeated |-> /\ mark_call.called
                                      /\ mark_call.issue = issue
                                      /\ mark_call.now = now]
        /\ UNCHANGED <<clock, call, spokenAt>>

\* a should_speak that records the issue as spoken when it answers true
ShouldSpeak_Marks ==
    \E issue \in IssueArgs, now \in {None, 2, 9} :
        LET ok == should_speak(issue, now, clock,
                               last_spoken_issue, last_spoken_time)
        IN  /\ call' = [issue |-> issue, now |-> NowOr(now, clock),
                        spoke |-> ok,
                        spoken_issue |-> last_spoken_issue,
                        spoken_time |-> last_spoken_time]
            /\ last_spoken_issue' = IF ok THEN issue ELSE last_spoken_issue
            /\ last_spoken_time' = IF ok THEN NowOr(now, clock)
                                   ELSE last_spoken_time
            /\ UNCHANGED <<clock, spokenAt>>

\* one call of should_speak(issue, now) on its own: the answer, read from
\* the engine's two fields
ShouldSpeak ==
    \E issue \in IssueArgs, now \in {None, 2, 9} :
        /\ call' = [issue |-> issue, now |-> NowOr(now, clock),
                    spoke |-> should_speak(issue, now, clock,
                                           last_spoken_issue, last_spoken_time),
                    spoken_issue |-> last_spoken_issue,
                    spoken_time |-> last_spoken_time]
        /\ UNCHANGED <<last_spoken_issue, last_spoken_time, clock, spokenAt>>

-----------------------------------------------------------------------------
(* FeedbackEngine: the issue history, backend/feedback/engine.py *)

\* the issue lists a frame may carry
IssueLists ==
    {<<>>, <<"A">>, <<"B">>, <<"A", "B">>, <<"B", "A">>, <<"A", "A">>}

\* FeedbackEngine.add_frame(issues): the history afterwards
add_frame(history, issues) == DequeAppend(history, issues, history_len)

\* the order in which _issue_counts meets the issues: frame by frame
RECURSIVE Flatten(_)
Flatten(history) ==
    IF history = <<>> THEN <<>>
    ELSE Head(history) \o Flatten(Tail(history))

\* a get_top_issue that asks for more than min_persistence_frames occurrences
get_top_issue_Strict(history) ==
    LET seen == Flatten(history) IN
    IF seen = <<>> THEN NoIssue
    ELSE LET issue == MajorityLabel(seen)
             count == CountOf(seen, issue)
         IN  IF count <= min_persistence_frames THEN NoIssue ELSE issue

\* FeedbackEngine.get_top_issue(): counts is the dict _issue_counts builds, and
\* max(counts.items(), key=count) is its first key of maximal count
get_top_issue(history) ==
    LET seen == Flatten(history) IN
    IF seen = <<>> THEN NoIssue
    ELSE LET issue == MajorityLabel(seen)
             count == CountOf(seen, issue)
         IN  IF count < min_persistence_frames THEN NoIssue ELSE issue

FeedbackInit ==
    /\ issue_history = <<>>
    /\ top_issue = NoIssue
    /\ fb_op = "init"

\* one call of feedback_engine.add_frame(issues)
AddFrame ==
    \E issues \in IssueLists :
        /\ issue_history' = add_frame(issue_history, issues)
        /\ fb_op' = "add_frame"
        /\ UNCHANGED top_issue

\* one call of feedback_engine.get_top_issue()
GetTopIssue ==
    /\ top_issue' = get_top_issue(issue_history)
    /\ fb_op' = "get_top_issue"
    /\ UNCHANGED issue_history

\* a FeedbackEngine as constructed, no call made on it
EngineInit == engine = [calls |-> 0, op |-> "init"]

\* the engine takes one more call, of operation op
EngineCall(op) ==
    /\ engine.calls < MaxEngineCalls
    /\ engine' = [calls |-> engine.calls + 1, op |-> op]

-----------------------------------------------------------------------------
(* The idle filter and analyze_frame, backend/exercise_logic/logic.py *)

\* the exercise argument: a label of the classifier, or None
LogicExercises ==
    {"squat", "deadlift", "pushup", "plank", "lunge", "bicep_curl", NoLabel}

IdleKnees == {100, 119, 120, 121, 155, 156, 170}

IdleHips == {140, 150, 151, 155, 156, 170}

\* the four universal angles, the two sides d degrees off their average, and
\* shoulder_y - hip_y in hundredths; angle_3pts gives None for a missing joint
LogicFrames ==
    {[knee_left |-> k - d, knee_right |-> k + d, hip_left |-> h, hip_right |-> h,
      torso_dy |-> dy] :
        k \in {40, 60, 100, 130, 152, 170}, d \in {0, 10},
        h \in {120, 153, 170}, dy \in {5, 20}}
    \cup {[knee_left |-> None, knee_right |-> 170, hip_left |-> 170,
           hip_right |-> 170, torso_dy |-> 10],
          [knee_left |-> 170, knee_right |-> 170, hip_left |-> 170,
           hip_right |-> None, torso_dy |-> 10]}

\* an idle filter that makes no exception for the plank
is_idle_pose_NoPlankException(avg_knee, avg_hip, exercise) ==
    LET standing_like == avg_knee > 155 /\ avg_hip > 155
        sitting_like == avg_knee < 120 /\ avg_hip > 150
    IN  standing_like \/ sitting_like

\* is_idle_pose(avg_knee, avg_hip, exercise)
is_idle_pose(avg_knee, avg_hip, exercise) ==
    LET standing_like == avg_knee > 155 /\ avg_hip > 155
        sitting_like == avg_knee < 120 /\ avg_hip > 150
    IN  IF exercise = "plank" THEN FALSE
        ELSE standing_like \/ sitting_like

\* the "REP TRIGGERING" and "BASIC ISSUES" part of analyze_frame; extra is the
\* dict created by this call, so extra.get("phase") is still None when read
AnalyzeActive(exercise, f, avg_knee, avg_hip, rep_count) ==
    LET before == "none"
        down == CASE exercise \in {"squat", "deadlift"} -> avg_knee < 70
                  [] exercise = "pushup" -> f.torso_dy < 7
                  [] exercise = "lunge" -> avg_knee < 80
                  [] OTHER -> FALSE
        up == CASE exercise \in {"squat", "deadlift", "lunge"} -> avg_knee > 150
                [] exercise = "pushup" -> f.torso_dy > 15
                [] OTHER -> FALSE
        phase == IF exercise = "plank" THEN "hold"
                 ELSE IF down THEN "down"
                 ELSE IF up THEN "up" ELSE before
        counted == IF ~down /\ up /\ before = "down"
                   THEN rep_count + 1 ELSE rep_count
        issues ==
            (IF avg_hip < 130
             THEN <<"Keep your spine neutral - avoid rounding your back.">>
             ELSE <<>>)
            \o (IF avg_knee < 50
                THEN <<"Avoid collapsing knees inward - push them outward.">>
                ELSE <<>>)
            \o (IF exercise = "squat" /\ avg_knee > 120
                THEN <<"Go deeper to achieve full squat depth.">> ELSE <<>>)
    IN  [rep_count |-> counted, issues |-> issues, status |-> "none",
         phase |-> phase]

\* an analyze_frame that flags the idle frame and analyses it all the same
analyze_frame_NoShortCircuit(exercise, f, rep_count) ==
    IF None \in {f.knee_left, f.knee_right, f.hip_left, f.hip_right}
    THEN [rep_count |-> rep_count, issues |-> <<"Pose not detected clearly.">>,
          status |-> "no_pose", phase |-> "none"]
    ELSE LET avg_knee == (f.knee_left + f.knee_right) \div 2
             avg_hip == (f.hip_left + f.hip_right) \div 2
             r == AnalyzeActive(exercise, f, avg_knee, avg_hip, rep_count)
         IN  IF is_idle_pose(avg_knee, avg_hip, exercise)
             THEN [r EXCEPT !.status = "idle"]
             ELSE r

\* analyze_frame(exercise, keypoints, rep_count): the returned rep_count and
\* issues, and extra's "status" and "phase" keys ("none" when absent).  The
\* frames of the model have an even sum of the two sides, so the averages are
\* whole degrees.
analyze_frame(exercise, f, rep_count) ==
    IF None \in {f.knee_left, f.knee_right, f.hip_left, f.hip_right}
    THEN [rep_count |-> rep_count, issues |-> <<"Pose not detected clearly.">>,
          status |-> "no_pose", phase |-> "none"]
    ELSE LET avg_knee == (f.knee_left + f.knee_right) \div 2
             avg_hip == (f.hip_left + f.hip_right) \div 2
         IN  IF is_idle_pose(avg_knee, avg_hip, exercise)
             THEN [rep_count |-> rep_count,
                   issues |-> <<"No exercise detected. Start exercising.">>,
                   status |-> "idle", phase |-> "none"]
             ELSE AnalyzeActive(exercise, f, avg_knee, avg_hip, rep_count)

LogicInit == logic_call = [op |-> "none"]

\* one call of is_idle_pose
IsIdlePose ==
    \E k \in IdleKnees, h \in IdleHips, e \in LogicExercises :
        logic_call' = [op |-> "is_idle_pose", avg_knee |-> k, avg_hip |-> h,
                       exercise |-> e, ret |-> is_idle_pose(k, h, e)]

\* one call of analyze_frame
AnalyzeFrame ==
    \E e \in LogicExercises, f \in LogicFrames, n \in {0, MaxReps} :
        logic_call' = [op |-> "analyze_frame", exercise |-> e, frame |-> f,
                       rep_count |-> n, ret |-> analyze_frame(e, f, n)]

-----------------------------------------------------------------------------
(* ExerciseClassifier.predict, backend/exercise_classifier/model.py *)

\* confidence_threshold = 0.6, in percent
confidence_threshold == 60

\* model.classes_, the labels of the fitted model in their sorted order
classes_ == <<"lunge", "plank", "squat">>

\* the rows predict_proba may return, in percent: they sum to 100
ProbRows ==
    {<<5 * a, 5 * b, 100 - 5 * a - 5 * b>> :
        a \in 0..20, b \in 0..20} \cap [1..3 -> 0..100]

\* np.max(probs)
MaxProb(probs) ==
    CHOOSE m \in {probs[i] : i \in DOMAIN probs} :
        \A i \in DOMAIN probs : probs[i] <= m

\* np.argmax(probs): the first index of the maximum
ArgMax(probs) ==
    CHOOSE i \in DOMAIN probs :
        /\ probs[i] = MaxProb(probs)
        /\ \A j \in 1..(i - 1) : probs[j] # MaxProb(probs)

\* a predict that also rejects a probability equal to the threshold
predict_RejectsEqual(probs) ==
    IF MaxProb(probs) <= confidence_threshold
    THEN NoLabel
    ELSE classes_[ArgMax(probs)]

\* ExerciseClassifier.predict(X), from the row predict_proba(X) returned
predict(probs) ==
    IF MaxProb(probs) < confidence_threshold
    THEN NoLabel
    ELSE classes_[ArgMax(probs)]

ClassifierInit == predict_call = [called |-> FALSE]

\* one call of classifier.predict(feats)
Predict ==
    \E probs \in ProbRows :
        predict_call' = [called |-> TRUE, probs |-> probs, ret |-> predict(probs)]

-----------------------------------------------------------------------------
(* AutoTrainer, backend/exercise_classifier/autotrainer.py *)

\* the AutoTrainer objects and the threads that call schedule_retrain
Trainers == {"t1", "t2"}

Callers == {"c1", "c2", "c3"}

\* the class attribute AutoTrainer._scheduled = False, which no code assigns
class_scheduled == FALSE

\* the value of self._scheduled: the instance's own attribute once
\* "self._scheduled = ..." has created it, the class attribute before
ReadScheduled(i) ==
    IF own_scheduled[i] = "unset" THEN class_scheduled
    ELSE own_scheduled[i] = "True"

TrainerInit ==
    /\ own_scheduled = [i \in Trainers |-> "unset"]
    /\ lock = "free"
    /\ caller_in = [c \in Callers |-> "out"]
    /\ jobs = [i \in Trainers |-> [sleeping |-> 0, trained |-> 0]]
    /\ artifact = [model |-> "shipped", by |-> "nobody", outcome |-> "none",
                   found |-> "shipped"]

\* thread c calls i.schedule_retrain() and enters "with self._lock"
EnterSchedule(c, i) ==
    /\ caller_in[c] = "out"
    /\ lock = "free"
    /\ lock' = c
    /\ caller_in' = [caller_in EXCEPT ![c] = i]
    /\ UNCHANGED <<own_scheduled, jobs, artifact>>

\* the with-block of schedule_retrain and the release of the lock: if the
\* flag reads false, set self._scheduled and start a _run_retrain thread
LeaveSchedule(c) ==
    /\ caller_in[c] # "out"
    /\ LET i == caller_in[c] IN
       IF ~ReadScheduled(i)
       THEN /\ own_scheduled' = [own_scheduled EXCEPT ![i] = "True"]
            /\ jobs' = [jobs EXCEPT ![i].sleeping = @ + 1]
       ELSE UNCHANGED <<own_scheduled, jobs>>
    /\ lock' = "free"
    /\ caller_in' = [caller_in EXCEPT ![c] = "out"]
    /\ UNCHANGED artifact

\* where a _run_retrain attempt ends: ds.merged() or the column selection
\* raises, model.fit raises, joblib.dump raises, or the method runs through
Outcomes == {"merge_raised", "fit_raised", "dump_raised", "done"}

\* a _run_retrain that dumps the untrained forest before it fits it
FileAfter_DumpsBeforeFit(i, outcome, file) ==
    IF outcome = "merge_raised" THEN {file} ELSE {i}

\* the file at MODEL_PATH after an attempt of i: joblib.dump is the statement
\* after model.fit and the only one that opens the file; it writes in place,
\* so a dump that raises may leave a truncated file
FileAfter(i, outcome, file) ==
    CASE outcome = "done" -> {i}
      [] outcome = "dump_raised" -> {file, "truncated"}
      [] OTHER -> {file}

\* a _run_retrain thread of i sleeps, merges the datasets, fits and dumps the
\* model; nothing catches what these raise, so on an exception the thread ends
\* here
Retrain(i) ==
    /\ jobs[i].sleeping > 0
    /\ \E outcome \in Outcomes :
         /\ jobs' = [jobs EXCEPT ![i] =
                      [sleeping |-> @.sleeping - 1,
                       trained |-> IF outcome = "done"
                                   THEN @.trained + 1 ELSE @.trained]]
         /\ \E file \in FileAfter(i, outcome, artifact.model) :
              artifact' = [model |-> file, by |-> i, outcome |-> outcome,
                           found |-> artifact.model]
    /\ UNCHANGED <<own_scheduled, lock, caller_in>>

\* the end of _run_retrain: "with self._lock: self._scheduled = False"
ReleaseFlag(i) ==
    /\ jobs[i].trained > 0
    /\ lock = "free"
    /\ own_scheduled' = [own_scheduled EXCEPT ![i] = "False"]
    /\ jobs' = [jobs EXCEPT ![i].trained = @ - 1]
    /\ UNCHANGED <<lock, caller_in, artifact>>

\* the _run_retrain threads between their start and the release of the flag
InFlight == {i \in Trainers : jobs[i].sleeping + jobs[i].trained > 0}

-----------------------------------------------------------------------------
(* The streams of the orchestrator, backend/main.py: /ws/live connections,
   which all use the module's one smoother *)

Streams == {"s1", "s2"}

\* what a frame gives the stabilizer: the classifier's label or None, or
\* nothing at all when no keypoints were detected
StreamInputs == {"squat", "lunge", NoLabel, "no_keypoints"}

StreamsInit ==
    streams = [s \in Streams |->
                 [status |-> "closed", frames |-> 0, stable |-> NoLabel,
                  own_window |-> <<>>, own_stable |-> NoLabel]]

\* ws_live accepts the connection: smoother.buffer.clear()
StreamOpen(s) ==
    /\ streams[s].status = "closed"
    /\ buffer' = <<>>
    /\ streams' = [streams EXCEPT ![s].status = "live", ![s].own_window = <<>>]
    /\ UNCHANGED <<sm_before, sm_prediction, sm_stable, sm_calls>>

\* one turn of the ws_live loop, from receive_json to send_json: without
\* keypoints it sends "Pose not detected" and continues, otherwise
\* stable_exercise = smoother.update(tentative_exercise)
StreamFrame(s) ==
    /\ streams[s].status = "live"
    /\ streams[s].frames < MaxStreamFrames
    /\ \E x \in StreamInputs :
         IF x = "no_keypoints"
         THEN /\ streams' = [streams EXCEPT ![s].frames = @ + 1]
              /\ UNCHANGED buffer
         ELSE LET shared == SmootherUpdate(buffer, x)
                  own == SmootherUpdate(streams[s].own_window, x)
              IN  /\ buffer' = shared.buffer
                  /\ streams' = [streams EXCEPT
                                    ![s].frames = @ + 1,
                                    ![s].stable = shared.ret,
                                    ![s].own_window = own.buffer,
                                    ![s].own_stable = own.ret]
    /\ UNCHANGED <<sm_before, sm_prediction, sm_stable, sm_calls>>

-----------------------------------------------------------------------------
(* VideoProcessor.process, backend/video/video_processor.py, for a squat
   video: the session, the feedback engine and the loop over the frames *)

\* pose_estimator.infer(frame) returned None
AbsentFrame == [cls |-> "absent"]

\* what infer returns for a frame: keypoints (both knees at the same angle, or
\* not resolved) or None
VideoInputs == {f \in SquatFrames : f.left = f.right} \cup {AbsentFrame}

\* a loop body that reports no reps for a frame without a pose
process_frame_ReportsZero(s, input) ==
    IF input # AbsentFrame
    THEN LET u == UpdateOf(s, input) IN
         [session |-> u.session, rep_count |-> u.result.rep_count,
          issues |-> u.result.issues]
    ELSE [session |-> s, rep_count |-> 0, issues |-> <<"Pose not detected">>]

\* the loop body up to the timeline entry: the session afterwards, and the
\* rep_count and issues of the frame
process_frame(s, input) ==
    IF input # AbsentFrame
    THEN LET u == UpdateOf(s, input) IN
         [session |-> u.session, rep_count |-> u.result.rep_count,
          issues |-> u.result.issues]
    ELSE [session |-> s, rep_count |-> s.rep_count,
          issues |-> <<"Pose not detected">>]

VideoInit ==
    video = [frames |-> 0, present |-> FALSE, rep_count |-> 0, issues |-> <<>>,
             absent_run |-> 0]

\* one turn of the loop of process: infer, session.update or the absent
\* branch, feedback_engine.add_frame, get_top_issue, timeline.append
ProcessFrame ==
    /\ video.frames < MaxVideoFrames
    /\ \E input \in VideoInputs :
         LET p == process_frame(session, input) IN
         /\ session' = p.session
         /\ IF input # AbsentFrame
            THEN /\ result' = [rep_count |-> p.rep_count, issues |-> p.issues]
                 /\ frame' = input
                 /\ Observe(input)
            ELSE UNCHANGED <<result, frame, lastExtreme, sweeps, wristSeen>>
         /\ issue_history' = add_frame(issue_history, p.issues)
         /\ top_issue' = get_top_issue(add_frame(issue_history, p.issues))
         /\ fb_op' = "get_top_issue"
         /\ video' = [frames |-> video.frames + 1,
                      present |-> input # AbsentFrame,
                      rep_count |-> p.rep_count,
                      issues |-> p.issues,
                      absent_run |-> IF input = AbsentFrame
                                     THEN video.absent_run + 1 ELSE 0]

-----------------------------------------------------------------------------
(* process_video, backend/main.py: the loop that threads rep_count through
   analyze_frame, with the module's classifier and smoother *)

\* the two labels the classifier tells apart in one uploaded video
LabelPairs == {<<"squat", "lunge">>, <<"deadlift", "pushup">>}

\* the keypoints of a frame, as the angles analyze_frame computes from them
UploadFrames ==
    {[knee_left |-> k, knee_right |-> k, hip_left |-> h, hip_right |-> h,
      torso_dy |-> dy] : k \in {60, 170}, h \in {120, 170}, dy \in {5, 20}}

\* what pose_detector.detect_keypoints and classifier.predict give for a
\* frame: no keypoints, or keypoints and a tentative label
UploadInputs(pair) ==
    {[keypoints |-> FALSE]}
    \cup {[keypoints |-> TRUE, frame |-> f, tentative |-> l] :
             f \in UploadFrames, l \in {pair[1], pair[2], NoLabel}}

\* the locals before the loop: timeline = [], rep_count = 0,
\* predicted_exercise = None, frame_index = 0
ProcessVideoLocals(pair) ==
    [pair |-> pair, frame_index |-> 0, rep_count |-> 0,
     predicted_exercise |-> NoLabel, keypoints |-> FALSE, stable |-> NoLabel,
     status |-> "none", entry_rep_count |-> 0,
     scenario |-> 0, armed |-> NoLabel, cycles |-> 0,
     last_exercise |-> NoLabel, switched |-> FALSE]

ProcessVideoRest == pv = ProcessVideoLocals(<<"squat", "lunge">>)

\* the request has been accepted: smoother.buffer.clear()
ProcessVideoInit ==
    /\ \E pair \in LabelPairs : pv = ProcessVideoLocals(pair)
    /\ SmootherInit

\* a loop body that counts a rep on every frame in the "up" phase
process_video_frame_CountsUpFrames(rep_count, predicted_exercise, buf, x) ==
    IF ~x.keypoints
    THEN [rep_count |-> rep_count, predicted_exercise |-> predicted_exercise,
          buffer |-> buf, stable |-> NoLabel, status |-> "absent"]
    ELSE LET u == SmootherUpdate(buf, x.tentative)
             r == analyze_frame(u.ret, x.frame, rep_count)
         IN  [rep_count |-> IF r.phase = "up" THEN r.rep_count + 1
                            ELSE r.rep_count,
              predicted_exercise |-> IF r.status = "idle" THEN NoLabel
                                     ELSE u.ret,
              buffer |-> u.buffer, stable |-> u.ret, status |-> r.status]

\* the body of the loop for one frame: the new rep_count and
\* predicted_exercise, the smoother's buffer, the stable label and the status
\* in extra
process_video_frame(rep_count, predicted_exercise, buf, x) ==
    IF ~x.keypoints
    THEN [rep_count |-> rep_count, predicted_exercise |-> predicted_exercise,
          buffer |-> buf, stable |-> NoLabel, status |-> "absent"]
    ELSE LET u == SmootherUpdate(buf, x.tentative)
             r == analyze_frame(u.ret, x.frame, rep_count)
         IN  [rep_count |-> r.rep_count,
              predicted_exercise |-> IF r.status = "idle" THEN NoLabel
                                     ELSE u.ret,
              buffer |-> u.buffer, stable |-> u.ret, status |-> r.status]

\* the knee angles of the scenario: standing, standing, bottom, bottom, standing
SquatScenario == <<170, 170, 60, 60, 170>>

\* whether the frame's metric is below the low threshold of exercise e
BelowLow(e, f) ==
    CASE e \in {"squat", "deadlift"} -> f.knee_left + f.knee_right < 140
      [] e = "lunge" -> f.knee_left + f.knee_right < 160
      [] e = "pushup" -> f.torso_dy < 7
      [] OTHER -> FALSE

\* whether the frame's metric is above the high threshold of exercise e
AboveHigh(e, f) ==
    CASE e \in {"squat", "deadlift", "lunge"} ->
            f.knee_left + f.knee_right > 300
      [] e = "pushup" -> f.torso_dy > 15
      [] OTHER -> FALSE

\* the history of the request after a frame, kept beside the locals: how much
\* of SquatScenario the rep logic of "squat" has been fed from the first
\* frame on (-1: something else), the exercise whose metric has crossed its
\* low threshold and not yet its high one, the number of low-to-high cycles
\* completed under one label, the last exercise the smoother returned and
\* whether it has just been replaced by another one
History(h, x, p) ==
    LET fed == x.keypoints /\ p.status = "none"
        e == p.stable
        next == h.frame_index + 1
        done == fed /\ h.armed = e /\ e # NoLabel /\ AboveHigh(e, x.frame)
    IN  [scenario |->
            IF /\ fed /\ e = "squat" /\ h.scenario = h.frame_index
               /\ next <= Len(SquatScenario)
               /\ x.frame.knee_left = SquatScenario[next]
               /\ x.frame.knee_right = SquatScenario[next]
            THEN next ELSE -1,
         armed |->
            IF ~x.keypoints THEN h.armed
            ELSE IF ~fed THEN (IF e = h.armed THEN h.armed ELSE NoLabel)
            ELSE IF BelowLow(e, x.frame) THEN e
            ELSE IF done \/ e # h.armed THEN NoLabel ELSE h.armed,
         cycles |-> IF done THEN h.cycles + 1 ELSE h.cycles,
         last_exercise |-> IF x.keypoints /\ e # NoLabel THEN e
                           ELSE h.last_exercise,
         switched |-> /\ x.keypoints /\ e # NoLabel
                      /\ h.last_exercise \notin {NoLabel, e}]

\* one turn of the loop of process_video: cap.read, detect_keypoints, and
\* either the "Pose not detected" entry or predict, smoother.update,
\* analyze_frame and the entry of the frame
ProcessVideoFrame ==
    /\ pv.frame_index < MaxUploadFrames
    /\ \E x \in UploadInputs(pv.pair) :
         LET p == process_video_frame(pv.rep_count, pv.predicted_exercise,
                                      buffer, x)
             h == History(pv, x, p)
         IN  /\ buffer' = p.buffer
             /\ pv' = [pair |-> pv.pair,
                       frame_index |-> pv.frame_index + 1,
                       rep_count |-> p.rep_count,
                       predicted_exercise |-> p.predicted_exercise,
                       keypoints |-> x.keypoints,
                       stable |-> p.stable,
                       status |-> p.status,
                       entry_rep_count |-> p.rep_count,
                       scenario |-> h.scenario, armed |-> h.armed,
                       cycles |-> h.cycles,
                       last_exercise |-> h.last_exercise,
                       switched |-> h.switched]
    /\ UNCHANGED <<sm_before, sm_prediction, sm_stable, sm_calls>>

-----------------------------------------------------------------------------
(* angle_3pts, backend/utils/angles.py *)

\* the points of the model: (x, y) on a grid of side GridMax

Points == (0..GridMax) \X (0..GridMax)

\* the model gives an angle in degrees rounded down to a multiple of AngleStep
AngleStep == 5

\* 1000 * cos(d) rounded up, for d = 0, 5, ..., 180 degrees
CosMilli ==
    <<1000, 997, 985, 966, 940, 907, 867, 820, 767, 708,
      643, 574, 500, 423, 343, 259, 174, 88, 0, -87,
      -173, -258, -342, -422, -500, -573, -642, -707, -766, -819,
      -866, -906, -939, -965, -984, -996, -1000>>

\* dot / sqrt(p) <= k / 1000, for p > 0, in integers
CosAtMost(dot, p, k) ==
    IF dot >= 0
    THEN k >= 0 /\ dot * dot * 1000000 <= k * k * p
    ELSE k >= 0 \/ dot * dot * 1000000 >= k * k * p

\* math.degrees(math.acos(dot / (mag_ba * mag_bc))), with p the square of
\* mag_ba * mag_bc: the largest tabulated angle whose cosine is not below it
AcosDegrees(dot, p) ==
    LET reached == {i \in DOMAIN CosMilli : CosAtMost(dot, p, CosMilli[i])}
        last == CHOOSE i \in reached : \A j \in reached : j <= i
    IN  AngleStep * (last - 1)

\* an angle_3pts that answers 0 degrees for a zero-length ray
angle_3pts_ZeroForDegenerate(a, b, c) ==
    LET ba == <<a[1] - b[1], a[2] - b[2]>>
        bc == <<c[1] - b[1], c[2] - b[2]>>
        mag_ba2 == ba[1] * ba[1] + ba[2] * ba[2]
        mag_bc2 == bc[1] * bc[1] + bc[2] * bc[2]
    IN  IF mag_ba2 = 0 \/ mag_bc2 = 0 THEN 0
        ELSE AcosDegrees(ba[1] * bc[1] + ba[2] * bc[2], mag_ba2 * mag_bc2)

\* angle_3pts(a, b, c): the angle at b, or None for a zero-length ray; the
\* magnitudes are kept as their squares, and the clamp to [-1, 1] has nothing
\* to do in exact arithmetic
angle_3pts(a, b, c) ==
    LET ba == <<a[1] - b[1], a[2] - b[2]>>
        bc == <<c[1] - b[1], c[2] - b[2]>>
        mag_ba2 == ba[1] * ba[1] + ba[2] * ba[2]
        mag_bc2 == bc[1] * bc[1] + bc[2] * bc[2]
    IN  IF mag_ba2 = 0 \/ mag_bc2 = 0 THEN None
        ELSE AcosDegrees(ba[1] * bc[1] + ba[2] * bc[2], mag_ba2 * mag_bc2)

AnglesInit == angle_call = [called |-> FALSE]

\* angle_3pts(a, b, c) and angle_3pts(c, b, a) on the same three points
Angle3Pts ==
    /\ ~angle_call.called
    /\ \E a \in Points, b \in Points, c \in Points :
        angle_call' = [called |-> TRUE, a |-> a, b |-> b, c |-> c,
                       ret |-> angle_3pts(a, b, c),
                       swapped |-> angle_3pts(c, b, a)]

-----------------------------------------------------------------------------
(* MediaPipePoseEstimator.infer with smoothing enabled, backend/pose/
   mediapipe_pose.py, and VisibilityFilter, backend/utils/smoothing.py *)

\* min_visibility = 0.5, in percent
min_visibility == 50

stable_visibility_frames == 2

\* what MediaPipe finds in a frame: no landmarks (None), or landmarks with
\* this mean visibility in percent
PoseInputs == {None, 30, 50, 80}

\* VisibilityFilter.update(visibility): the window afterwards and the answer
VisibilityFilterUpdate(window, visibility) ==
    LET w == DequeAppend(window, visibility >= min_visibility,
                         stable_visibility_frames)
    IN  [window |-> w, ret |-> \A i \in DOMAIN w : w[i]]

\* infer(frame): the filter's window afterwards, and keypoints or None
infer(window, x) ==
    IF x = None
    THEN [window |-> window, ret |-> "None"]
    ELSE LET u == VisibilityFilterUpdate(window, x) IN
         [window |-> u.window,
          ret |-> IF u.ret THEN "keypoints" ELSE "None"]

\* the estimator as constructed: an empty window, nothing inferred yet
PoseInit ==
    pose = [window |-> <<>>, frames |-> 0, input |-> None,
            ret |-> "None", visible_run |-> 0]

\* one call of infer; visible_run counts the frames in a row, this one
\* included, that had landmarks of mean visibility min_visibility or more
Infer ==
    /\ pose.frames < MaxPoseFrames
    /\ \E x \in PoseInputs :
         LET r == infer(pose.window, x) IN
         pose' = [window |-> r.window, frames |-> pose.frames + 1,
                  input |-> x, ret |-> r.ret,
                  visible_run |->
                     IF x # None /\ x >= min_visibility
                     THEN pose.visible_run + 1 ELSE 0]

-----------------------------------------------------------------------------
(* The two majority votes side by side: TemporalExerciseSmoother.update and
   FeedbackEngine.get_top_issue on a given window and a given history *)

\* the sequences over S of length 0..n
SeqUpTo(S, n) == UNION {[1..k -> S] : k \in 0..n}

\* the labels of the windows compared
TieLabels == {"squat", "lunge"}

TieInit == tie_call = [called |-> FALSE]

\* update(prediction) on the buffer and get_top_issue() on the history
TieBreak ==
    /\ ~tie_call.called
    /\ \E buf \in SeqUpTo(TieLabels, MaxTieLen), p \in TieLabels,
          history \in SeqUpTo(IssueLists, MaxTieLen) :
         tie_call' = [called |-> TRUE,
                      window |-> SmootherUpdate(buf, p).buffer,
                      stable |-> SmootherUpdate(buf, p).ret,
                      history |-> history,
                      top |-> get_top_issue(history)]

-----------------------------------------------------------------------------
(* TTSFeedbackSpeaker, backend/tts/engine.py: one speaker, speak called from
   several places *)

\* the speak calls made on the speaker
Utterances == {"u1", "u2", "u3"}

Texts == {"", "Go lower"}

\* "say" on macOS, pyttsx3 elsewhere
Backends == {"say", "pyttsx3"}

\* the speaker __init__ builds on a platform with backend b
Speaker(b) ==
    [backend |-> b, lock |-> "free",
     text |-> [u \in Utterances |-> ""],
     returned |-> [u \in Utterances |-> FALSE],
     at |-> [u \in Utterances |-> "uncalled"]]

TtsInit == tts \in {Speaker(b) : b \in Backends}

\* speak(text): nothing for empty text, else a daemon thread on _speak_sync
\* is started; speak returns in both cases
Speak(u) ==
    /\ tts.at[u] = "uncalled"
    /\ \E text \in Texts :
         tts' = [tts EXCEPT !.text[u] = text,
                            !.returned[u] = TRUE,
                            !.at[u] = IF text = "" THEN "no_thread"
                                      ELSE "started"]

\* a _speak_sync that calls the engine without taking _lock
EnterSpeakSync_NoLock(u) ==
    /\ tts.at[u] = "started"
    /\ tts' = [tts EXCEPT !.at[u] = IF tts.text[u] = "" THEN "done"
                                    ELSE IF tts.backend = "say" THEN "in_say"
                                    ELSE "in_engine"]

\* the thread of u runs _speak_sync up to its blocking call: subprocess.call
\* on the say backend, "with self._lock" and engine.say on pyttsx3
EnterSpeakSync(u) ==
    /\ tts.at[u] = "started"
    /\ IF tts.text[u] = ""
       THEN tts' = [tts EXCEPT !.at[u] = "done"]
       ELSE IF tts.backend = "say"
       THEN tts' = [tts EXCEPT !.at[u] = "in_say"]
       ELSE /\ tts.lock = "free"
            /\ tts' = [tts EXCEPT !.lock = u, !.at[u] = "in_engine"]

\* subprocess.call(["say", text]) returns or raises; the exception is caught
LeaveSay(u) ==
    /\ tts.at[u] = "in_say"
    /\ tts' = [tts EXCEPT !.at[u] = "done"]

\* engine.runAndWait() returns or raises; the with-block releases _lock
LeaveEngine(u) ==
    /\ tts.at[u] = "in_engine"
    /\ tts' = [tts EXCEPT !.at[u] = "done", !.lock = "free"]

-----------------------------------------------------------------------------
(* The specifications: one component runs, the others rest in their initial
   state *)

Resting(running) ==
    /\ IF "session" \in running THEN TRUE ELSE SessionRest
    /\ IF "smoother" \in running THEN TRUE ELSE SmootherInit
    /\ IF "speak" \in running THEN TRUE ELSE SpeakInit
    /\ IF "feedback" \in running THEN TRUE ELSE FeedbackInit
    /\ IF "logic" \in running THEN TRUE ELSE LogicInit
    /\ IF "classifier" \in running THEN TRUE ELSE ClassifierInit
    /\ IF "trainer" \in running THEN TRUE ELSE TrainerInit
    /\ IF "streams" \in running THEN TRUE ELSE StreamsInit
    /\ IF "video" \in running THEN TRUE ELSE VideoInit
    /\ IF "pipeline" \in running THEN TRUE ELSE ProcessVideoRest
    /\ IF "angles" \in running THEN TRUE ELSE AnglesInit
    /\ IF "mark" \in running THEN TRUE ELSE MarkInit
    /\ IF "pose" \in running THEN TRUE ELSE PoseInit
    /\ IF "tie" \in running THEN TRUE ELSE TieInit
    /\ IF "tts" \in running THEN TRUE ELSE tts = Speaker("pyttsx3")
    /\ IF "engine" \in running THEN TRUE ELSE EngineInit

\* a session of any variant; the stabilizer and the engine as constructed
SessionStart == SessionInit /\ Resting({"session"})

SessionSpec == SessionStart /\ [][SessionNext]_vars

SmootherNext == SmootherCall /\ Idle({"smoother"})

\* the stabilizer as constructed, beside a session that is never updated
SmootherStart == SmootherInit /\ Resting({"smoother"})

SmootherSpec == SmootherStart /\ [][SmootherNext]_vars

SpeakNext ==
    \/ Tick /\ Idle({"speak"})
    \/ TrySpeak /\ Idle({"speak"})

\* the engine as constructed, beside a session that is never updated
SpeakStart == SpeakInit /\ Resting({"speak"})

SpeakSpec == SpeakStart /\ [][SpeakNext]_vars

FeedbackNext ==
    \/ AddFrame /\ Idle({"feedback"})
    \/ GetTopIssue /\ Idle({"feedback"})

\* the engine's history as constructed
FeedbackStart == FeedbackInit /\ Resting({"feedback"})

FeedbackSpec == FeedbackStart /\ [][FeedbackNext]_vars

LogicNext ==
    \/ IsIdlePose /\ Idle({"logic"})
    \/ AnalyzeFrame /\ Idle({"logic"})

\* no call into exercise_logic made yet
LogicStart == LogicInit /\ Resting({"logic"})

LogicSpec == LogicStart /\ [][LogicNext]_vars

ClassifierNext == Predict /\ Idle({"classifier"})

\* no prediction made yet
ClassifierStart == ClassifierInit /\ Resting({"classifier"})

ClassifierSpec == ClassifierStart /\ [][ClassifierNext]_vars

TrainerNext ==
    \/ \E c \in Callers, i \in Trainers : EnterSchedule(c, i) /\ Idle({"trainer"})
    \/ \E c \in Callers : LeaveSchedule(c) /\ Idle({"trainer"})
    \/ \E i \in Trainers : Retrain(i) /\ Idle({"trainer"})
    \/ \E i \in Trainers : ReleaseFlag(i) /\ Idle({"trainer"})

\* the AutoTrainer objects as constructed, no thread inside schedule_retrain
TrainerStart == TrainerInit /\ Resting({"trainer"})

TrainerSpec == TrainerStart /\ [][TrainerNext]_vars

StreamsNext ==
    \/ \E s \in Streams : StreamOpen(s) /\ Idle({"smoother", "streams"})
    \/ \E s \in Streams : StreamFrame(s) /\ Idle({"smoother", "streams"})

\* no connection accepted yet, the module's smoother as constructed
StreamsStart == StreamsInit /\ SmootherInit /\ Resting({"smoother", "streams"})

StreamsSpec == StreamsStart /\ [][StreamsNext]_vars

VideoNext == ProcessFrame /\ Idle({"session", "feedback", "video"})

\* process before the first frame: create_exercise_session("squat") and
\* FeedbackEngine()
VideoStart ==
    VideoInit /\ SessionRest /\ FeedbackInit
    /\ Resting({"session", "feedback", "video"})

VideoSpec == VideoStart /\ [][VideoNext]_vars

ProcessVideoNext == ProcessVideoFrame /\ Idle({"smoother", "pipeline"})

\* one /process-video request from its first frame on
ProcessVideoStart ==
    ProcessVideoInit /\ Resting({"smoother", "pipeline"})

ProcessVideoSpec == ProcessVideoStart /\ [][ProcessVideoNext]_vars

MarkSpokenNext ==
    \/ Tick /\ Idle({"speak", "mark"}) /\ UNCHANGED markVars
    \/ MarkSpoken /\ Idle({"speak", "mark"})

MarkSpokenStart == SpeakInit /\ MarkInit /\ Resting({"speak", "mark"})

MarkSpokenSpec == MarkSpokenStart /\ [][MarkSpokenNext]_vars

PoseNext == Infer /\ Idle({"pose"})

PoseStart == PoseInit /\ Resting({"pose"})

PoseSpec == PoseStart /\ [][PoseNext]_vars

TieBreakNext == TieBreak /\ Idle({"tie"})

TieBreakStart == TieInit /\ Resting({"tie"})

TieBreakSpec == TieBreakStart /\ [][TieBreakNext]_vars

TtsNext ==
    \/ \E u \in Utterances : Speak(u) /\ Idle({"tts"})
    \/ \E u \in Utterances : EnterSpeakSync(u) /\ Idle({"tts"})
    \/ \E u \in Utterances : LeaveSay(u) /\ Idle({"tts"})
    \/ \E u \in Utterances : LeaveEngine(u) /\ Idle({"tts"})

\* a speaker as constructed, on either platform, speak not yet called
TtsStart == TtsInit /\ Resting({"tts"})

TtsSpec == TtsStart /\ [][TtsNext]_vars

\* one engine, its four operations called in any order
EngineNext ==
    \/ /\ AddFrame /\ EngineCall("add_frame")
       /\ Idle({"feedback", "engine"})
    \/ /\ GetTopIssue /\ EngineCall("get_top_issue")
       /\ Idle({"feedback", "engine"})
    \/ /\ ShouldSpeak /\ EngineCall("should_speak")
       /\ Idle({"speak", "engine"})
    \/ /\ MarkSpoken /\ EngineCall("mark_spoken")
       /\ Idle({"speak", "mark", "engine"})

EngineStart ==
    /\ SpeakInit /\ FeedbackInit /\ MarkInit /\ EngineInit
    /\ Resting({"speak", "feedback", "mark", "engine"})

EngineSpec == EngineStart /\ [][EngineNext]_vars

\* the three bounded histories: a session, a stabilizer and a feedback engine
\* are separate objects, and a behaviour exercises one of them beside the two
\* others as constructed
BuffersNext ==
    \/ /\ SmootherInit /\ FeedbackInit
       /\ Update /\ Idle({"session"})
    \/ /\ SessionRest /\ FeedbackInit
       /\ SmootherCall /\ Idle({"smoother"})
    \/ /\ SessionRest /\ SmootherInit
       /\ AddFrame /\ Idle({"feedback"})
    \/ /\ SessionRest /\ SmootherInit
       /\ GetTopIssue /\ Idle({"feedback"})

BuffersStart ==
    /\ SessionInit /\ SmootherInit /\ FeedbackInit
    /\ Resting({"session", "smoother", "feedback"})

BuffersSpec == BuffersStart /\ [][BuffersNext]_vars

AnglesNext == Angle3Pts /\ Idle({"angles"})

AnglesStart == AnglesInit /\ Resting({"angles"})

AnglesSpec == AnglesStart /\ [][AnglesNext]_vars

-----------------------------------------------------------------------------
(* Properties of the exercise session family, checked under SessionSpec *)

\* C1: in every session variant rep_count starts at 0 and no update call,
\* a missing-joint frame included, ever lowers it.
C1_RepCountMonotonic ==
    /\ session.rep_count = 0
    /\ [][session'.rep_count >= session.rep_count]_vars

\* a missing-joint frame arrives after a rep has been counted
C1_Witness ==
    /\ session.rep_count > 0
    /\ frame # NoFrame /\ ~Resolved(frame)
    /\ result.rep_count = session.rep_count

\* the metric of the last frame lies strictly inside the hysteresis band
InBand(f) ==
    /\ f.cls \in AngleVariants /\ Resolved(f)
    /\ LowThreshold(f.cls) < Metric(f) /\ Metric(f) < HighThreshold(f.cls)

\* C2: in the six angle-threshold variants rep_count is the number of
\* completed sweeps of the metric (below the low threshold, later above the
\* high one) and the phase is the flexed one exactly after a metric below the
\* low threshold; a metric strictly between the thresholds changes neither
\* phase nor rep_count; and every increment follows a crossing of the low
\* threshold made since the increment before.
C2_SweepCountsOnce ==
    /\ [](session.cls \in AngleVariants =>
            /\ session.rep_count = sweeps
            /\ session.state = FlexedPhase(session.cls) <=> lastExtreme = "low")
    /\ [][InBand(frame') =>
            /\ session'.state = session.state
            /\ session'.rep_count = session.rep_count]_vars
    /\ [][(session.cls \in AngleVariants
           /\ session'.rep_count # session.rep_count) =>
            /\ lastExtreme = "low"
            /\ session'.rep_count = session.rep_count + 1
            /\ lastExtreme' = "high"]_vars

\* after one full sweep the metric went down again and now sits in the band
C2_Witness ==
    /\ InBand(frame)
    /\ sweeps = 1 /\ session.rep_count = 1
    /\ lastExtreme = "low"
    /\ session.state = FlexedPhase(session.cls)

\* C3: in LatPulldownSession the TOP->BOTTOM and BOTTOM->TOP conditions are
\* separated by a hysteresis band, so that a wrist that keeps one height after
\* the first frame, or stays within a hundredth of the captured top height,
\* never adds a rep.  (The band is missing: every height strictly between
\* hand_top_y and hand_top_y + 0.02 satisfies both conditions.)
C3_LatSteadyWristNeverCounts ==
    (session.cls = "lat_pulldown" /\ session.hand_top_y # None) =>
        /\ Cardinality(wristSeen) <= 1 => session.rep_count = 0
        /\ (\A y \in wristSeen : Abs(y - session.hand_top_y) <= 1)
              => session.rep_count = 0

\* C4: in the seven rep-counting variants an update changes rep_count exactly
\* when it moves the phase from the flexed one back to the extended one, and
\* then by one; the forward transition leaves rep_count alone; the phase is
\* always one of the two.
C4_OneTransitionPerUpdate ==
    [][session.cls \in RepVariants =>
        LET ext == ExtendedPhase(session.cls)
            flx == FlexedPhase(session.cls)
            forward == session.state = ext /\ session'.state = flx
            return == session.state = flx /\ session'.state = ext
        IN  /\ session'.state \in {ext, flx}
            /\ session'.rep_count # session.rep_count <=> return
            /\ return => session'.rep_count = session.rep_count + 1
            /\ forward => session'.rep_count = session.rep_count]_vars

\* a push-up session is back at the top with its first rep counted
C4_Witness ==
    /\ session.cls = "pushup"
    /\ session.state = "TOP" /\ session.rep_count = 1
    /\ Resolved(frame) /\ Metric(frame) > pushup_elbow_angle_top
    /\ result.rep_count = 1

NotVisibleIssues ==
    {"Knee joints not clearly visible.", "Elbows not clearly visible.",
     "Elbow not clearly visible.", "Key joints not clearly visible.",
     "Front knee not clearly visible."}

\* C5: an update whose frame leaves a required joint angle undefined returns
\* exactly one issue, the not-clearly-visible one, and the current rep_count,
\* and changes none of rep_count, phase, angle history and per-rep scratch
\* accumulators.
C5_MissingJointFrame ==
    [][(frame'.cls \in AngleVariants /\ ~Resolved(frame')) =>
        /\ Len(result'.issues) = 1
        /\ result'.issues[1] \in NotVisibleIssues
        /\ result'.rep_count = session.rep_count
        /\ session'.rep_count = session.rep_count
        /\ session'.state = session.state
        /\ session'.angle_history = session.angle_history
        /\ Scratch(session') = Scratch(session)]_vars

\* the joints are lost in the middle of a bench press rep, the history full
C5_Witness ==
    /\ session.cls = "bench_press"
    /\ ~Resolved(frame)
    /\ session.state = "BOTTOM" /\ session.rep_count = 1
    /\ Len(session.angle_history) = angle_history_size
    /\ session.current_rep_min_elbow_angle # None
    /\ result.issues = <<"Elbows not clearly visible.">>

-----------------------------------------------------------------------------
(* Properties of the label stabilizer, checked under SmootherSpec *)

\* C6: update(None) always returns None and leaves the window empty, whatever
\* the window held before, and the real label that follows it is alone in the
\* window, with count 1.
C6_NoneClearsWindow ==
    /\ []((sm_calls = 1 /\ sm_prediction = NoLabel)
            => (sm_stable = NoLabel /\ buffer = <<>>))
    /\ [][(sm_calls = 1 /\ sm_prediction = NoLabel /\ sm_prediction' # NoLabel)
            => (Len(buffer') = 1 /\ CountOf(buffer', sm_prediction') = 1)]_vars

\* update(None) on a full window that held a unanimous label
C6_Witness ==
    /\ sm_calls = 1
    /\ sm_prediction = NoLabel
    /\ Len(sm_before) = window_size
    /\ CountOf(sm_before, "squat") = window_size
    /\ buffer = <<>>
    /\ sm_stable = NoLabel

\* C7: for a real label, update returns the most frequent label of the window
\* only if its count divided by window_size, the capacity, is at least
\* min_agreement, and None otherwise: with the defaults a returned label has
\* at least 5 occurrences in the window.
C7_AgreementOverCapacity ==
    (sm_calls = 1 /\ sm_prediction # NoLabel) =>
        /\ sm_stable # NoLabel =>
            /\ \A q \in Labels :
                 CountOf(buffer, q) <= CountOf(buffer, sm_stable)
            /\ min_agreement_den * CountOf(buffer, sm_stable)
                 >= min_agreement_num * window_size
            /\ CountOf(buffer, sm_stable) >= 5
        /\ sm_stable = NoLabel =>
            \A q \in Labels :
                min_agreement_den * CountOf(buffer, q)
                    < min_agreement_num * window_size

-----------------------------------------------------------------------------
(* Properties of the speak decision, checked under SpeakSpec *)

\* C8: any two accepted speak decisions for the same issue are at least
\* repeat_same_issue_after seconds apart, whatever was spoken in between.
C8_SameIssueRepeatInterval ==
    [][\A i \in SpokenIssues :
         (spokenAt'[i] # spokenAt[i] /\ spokenAt[i] # None)
            => spokenAt'[i] - spokenAt[i] >= repeat_same_issue_after]_vars

\* C9: should_speak answers false whenever now - last_spoken_time is below
\* cooldown_sec, so an accepted speak decision comes at least cooldown_sec
\* after every earlier accepted one, of the same or of another issue.
C9_GlobalCooldown ==
    /\ [](call.now - call.spoken_time < cooldown_sec => ~call.spoke)
    /\ [][\A i, j \in SpokenIssues :
            (spokenAt'[i] # spokenAt[i] /\ spokenAt[j] # None)
               => spokenAt'[i] - spokenAt[j] >= cooldown_sec]_vars

\* issue B accepted exactly cooldown_sec after issue A was
C9_Witness ==
    /\ call.spoke
    /\ spokenAt["A"] # None
    /\ spokenAt["B"] = spokenAt["A"] + cooldown_sec
    /\ last_spoken_time = spokenAt["B"]

\* C10: should_speak answers true for a non-empty issue other than
\* last_spoken_issue as soon as now - last_spoken_time >= cooldown_sec; for
\* the issue equal to last_spoken_issue it answers true only once
\* now - last_spoken_time >= repeat_same_issue_after; for an empty or None
\* issue it answers false.
C10_ShouldSpeakDecision ==
    /\ call.issue \in {NoIssue, ""} => ~call.spoke
    /\ (/\ call.issue \notin {NoIssue, ""}
        /\ call.issue # call.spoken_issue
        /\ call.now - call.spoken_time >= cooldown_sec) => call.spoke
    /\ (/\ call.issue \notin {NoIssue, ""}
        /\ call.issue = call.spoken_issue)
         => (call.spoke <=>
                call.now - call.spoken_time >= repeat_same_issue_after)

\* another issue accepted while the last spoken one is still suppressed
C10_Witness ==
    /\ call.issue = "B"
    /\ call.spoken_issue = "A"
    /\ call.now - call.spoken_time >= cooldown_sec
    /\ call.now - call.spoken_time < repeat_same_issue_after
    /\ call.spoke
    /\ last_spoken_issue = "B"

-----------------------------------------------------------------------------
(* Properties of the issue history, checked under FeedbackSpec *)

\* the occurrences of an issue in one frame's list, and in the whole window
OccurrencesIn(issues, i) == Cardinality({k \in DOMAIN issues : issues[k] = i})

RECURSIVE Occurrences(_, _)
Occurrences(history, i) ==
    IF history = <<>> THEN 0
    ELSE OccurrencesIn(Head(history), i) + Occurrences(Tail(history), i)

\* C11: get_top_issue returns None whenever every issue occurs fewer than
\* min_persistence_frames times in the window, the empty window included, and
\* otherwise returns an issue whose number of occurrences is maximal.
C11_TopIssuePersistence ==
    fb_op = "get_top_issue" =>
        IF \A i \in SpokenIssues :
               Occurrences(issue_history, i) < min_persistence_frames
        THEN top_issue = NoIssue
        ELSE /\ top_issue \in SpokenIssues
             /\ \A j \in SpokenIssues :
                    Occurrences(issue_history, j)
                        <= Occurrences(issue_history, top_issue)

\* the frames [A], [A], [B], [A], [A] report A
C11_Witness ==
    /\ fb_op = "get_top_issue"
    /\ issue_history = <<(<<"A">>), (<<"A">>), (<<"B">>), (<<"A">>), (<<"A">>)>>
    /\ top_issue = "A"


\* the number of frames of the window whose list contains issue i
FramesWith(history, i) ==
    Cardinality({k \in DOMAIN history :
                    \E j \in DOMAIN history[k] : history[k][j] = i})

\* C30: get_top_issue returns an issue only if the issue appears in at least
\* min_persistence_frames distinct frames of the window, also when a frame's
\* list repeats the issue.
C30_TopIssueInEnoughFrames ==
    (fb_op = "get_top_issue" /\ top_issue # NoIssue) =>
        FramesWith(issue_history, top_issue) >= min_persistence_frames

-----------------------------------------------------------------------------
(* Properties of the idle filter and analyze_frame, checked under LogicSpec *)

\* C12: is_idle_pose returns true exactly when the exercise is not plank and
\* the pose is standing (knee > 155 and hip > 155) or sitting (knee < 120 and
\* hip > 150); for plank it returns false for every pair of angles.
C12_IdlePose ==
    logic_call.op = "is_idle_pose" =>
        /\ logic_call.ret <=>
             /\ logic_call.exercise # "plank"
             /\ \/ (logic_call.avg_knee >= 156 /\ logic_call.avg_hip >= 156)
                \/ (logic_call.avg_knee <= 119 /\ logic_call.avg_hip >= 151)
        /\ logic_call.exercise = "plank" => ~logic_call.ret

\* (170, 170, squat) is idle
C12_Witness ==
    /\ logic_call.op = "is_idle_pose"
    /\ logic_call.avg_knee = 170
    /\ logic_call.avg_hip = 170
    /\ logic_call.exercise = "squat"
    /\ logic_call.ret

\* whether the four angles of the analysed frame are defined and their
\* averages make a standing or a sitting pose of an exercise other than plank
IdleFrame ==
    LET f == logic_call.frame IN
    /\ None \notin {f.knee_left, f.knee_right, f.hip_left, f.hip_right}
    /\ logic_call.exercise # "plank"
    /\ \/ (f.knee_left + f.knee_right > 310 /\ f.hip_left + f.hip_right > 310)
       \/ (f.knee_left + f.knee_right < 240 /\ f.hip_left + f.hip_right > 300)

\* C13: when the idle filter classifies the frame as idle, analyze_frame
\* returns the rep_count it was given, the single issue "No exercise
\* detected", status idle, and no phase: no rep-phase logic and no form check
\* ran for the frame.
C13_IdleShortCircuit ==
    logic_call.op = "analyze_frame" =>
        /\ IdleFrame <=> logic_call.ret.status = "idle"
        /\ IdleFrame =>
             /\ logic_call.ret.rep_count = logic_call.rep_count
             /\ logic_call.ret.issues
                  = <<"No exercise detected. Start exercising.">>
             /\ logic_call.ret.phase = "none"

\* a standing squat frame, which the form checks would tell to go deeper
C13_Witness ==
    /\ logic_call.op = "analyze_frame"
    /\ logic_call.exercise = "squat"
    /\ logic_call.frame.knee_left = 160
    /\ logic_call.frame.knee_right = 180
    /\ logic_call.frame.hip_left = 170
    /\ logic_call.rep_count = MaxReps
    /\ logic_call.ret.status = "idle"
    /\ logic_call.ret.rep_count = MaxReps

-----------------------------------------------------------------------------
(* Properties of the classifier adapter, checked under ClassifierSpec *)

\* C14: predict returns the reject label exactly when the largest class
\* probability is strictly below confidence_threshold, and otherwise the
\* class of the largest probability; a probability equal to the threshold is
\* accepted.
C14_ConfidenceRejection ==
    predict_call.called =>
        LET probs == predict_call.probs
            ret == predict_call.ret
        IN  /\ ret = NoLabel <=>
                 \A i \in DOMAIN probs : probs[i] < confidence_threshold
            /\ ret # NoLabel =>
                 \E i \in DOMAIN probs :
                    /\ classes_[i] = ret
                    /\ \A j \in DOMAIN probs : probs[j] <= probs[i]

\* the largest probability equals the threshold and its class is returned
C14_Witness ==
    /\ predict_call.called
    /\ predict_call.probs = <<25, 15, 60>>
    /\ predict_call.ret = "squat"

-----------------------------------------------------------------------------
(* Properties of the retraining scheduler, checked under TrainerSpec *)

\* C15: at most one retraining job is in flight at any time, for any
\* interleaving of schedule_retrain calls from several threads and on several
\* AutoTrainer instances.
C15_OneRetrainInFlight ==
    (jobs["t1"].sleeping + jobs["t1"].trained)
      + (jobs["t2"].sleeping + jobs["t2"].trained) <= 1

\* C16: the in-flight flag is released after every retraining attempt,
\* successful or failed: once no _run_retrain thread of an instance is left
\* and no caller is inside its schedule_retrain, its flag reads false, so the
\* next schedule_retrain starts a new job.
C16_FlagReleasedAfterAttempt ==
    \A i \in Trainers :
        (i \notin InFlight /\ \A c \in Callers : caller_in[c] # i)
            => ~ReadScheduled(i)

\* C32: a retraining attempt that fails before or during model fitting does
\* not write the classifier artifact: it leaves the file at MODEL_PATH as
\* it found it, and the file is replaced by a fit only when the attempt ran
\* through its fit.
C32_FailedFitKeepsArtifact ==
    /\ artifact.outcome \in {"merge_raised", "fit_raised"}
          => artifact.model = artifact.found
    /\ artifact.model \in Trainers
          => \/ artifact.model = artifact.found
             \/ artifact.by = artifact.model /\ artifact.outcome = "done"

\* an attempt of t2 failed in its fit after t1 had replaced the shipped model
C32_Witness ==
    /\ artifact.outcome = "fit_raised"
    /\ artifact.by = "t2"
    /\ artifact.model = "t1"

\* C33: a schedule_retrain call that returns has started no thread when a
\* retraining job was scheduled or running, and exactly one when none was in
\* flight.
C33_AbsorbedOrStarted ==
    [][\A c \in Callers :
          (caller_in[c] # "out" /\ caller_in'[c] = "out")
              => LET i == caller_in[c]
                     started == jobs'[i].sleeping - jobs[i].sleeping
                 IN  started = (IF InFlight = {} THEN 1 ELSE 0)]_vars

-----------------------------------------------------------------------------
(* Properties of concurrent streams, checked under StreamsSpec *)

\* C17: each stream owns its label-stabilizer window: the stabilized label
\* returned to a stream is the one a stabilizer fed by this stream alone
\* returns, whatever the other stream feeds and whenever the other stream
\* starts.
C17_StreamsOwnTheirWindow ==
    \A s \in Streams : streams[s].stable = streams[s].own_stable

-----------------------------------------------------------------------------
(* The plank session, checked under SessionSpec *)

\* C20: PlankSession has no rep logic: every update leaves rep_count at 0 and
\* the phase as it was, and raises the frame counter by exactly one.
C20_PlankHasNoRepLogic ==
    [][session.cls = "plank" =>
          /\ session'.rep_count = 0 /\ result'.rep_count = 0
          /\ session'.state = session.state /\ session'.state = "INIT"
          /\ session'.frame_count = session.frame_count + 1]_vars

\* a plank held for MaxPlankFrames frames, some of them with a posture fault
C20_Witness ==
    /\ session.cls = "plank"
    /\ session.frame_count = MaxPlankFrames
    /\ session.total_penalty > 0
    /\ session.rep_count = 0
    /\ session.state = "INIT"

-----------------------------------------------------------------------------
(* The reference values of the sessions, checked under SessionSpec *)

\* the variants that capture a reference value
RefVariants == {"bench_press", "bicep_curl", "lunge", "lat_pulldown"}

\* the reference value of session s
RefValue(s) ==
    CASE s.cls = "bench_press" -> s.ref_hand_mid_x
      [] s.cls = "bicep_curl" -> s.ref_shoulder
      [] s.cls = "lunge" -> s.ref_shoulder_center
      [] s.cls = "lat_pulldown" -> s.hand_top_y

\* what frame f shows of the quantity the reference value is taken from
FrameRef(f) ==
    CASE f.cls = "bench_press" -> f.hand_x
      [] f.cls \in {"bicep_curl", "lunge"} -> f.shoulder
      [] f.cls = "lat_pulldown" -> f.wr_y

\* C26: the reference value of a session (_ref_hand_mid_x, _ref_shoulder,
\* _ref_shoulder_center, hand_top_y) is unset before the first update, the
\* first update sets it to the value of its frame, and no later update
\* changes it.
C26_ReferenceCapturedOnce ==
    /\ [](session.cls \in RefVariants =>
             (frame = NoFrame <=> RefValue(session) = None))
    /\ [][session.cls \in RefVariants =>
             RefValue(session') = IF frame = NoFrame THEN FrameRef(frame')
                                  ELSE RefValue(session)]_vars

\* a bench press whose hands have moved off the midline of its first frame,
\* after a counted rep
C26_Witness ==
    /\ session.cls = "bench_press"
    /\ session.ref_hand_mid_x = 50
    /\ frame.hand_x = 60
    /\ session.rep_count = 1

\* the range-of-motion issues of pushup, bench press and bicep curl
UnderReachIssues ==
    {"Go lower - bend your elbows more for full push-ups.",
     "Lower the bar more for a full range of motion.",
     "Bring the bar closer to your chest at the bottom of the rep.",
     "Fully extend your arm at the bottom of each rep.",
     "Curl higher - bring your hand closer to your shoulder."}

\* C27: a range-of-motion issue is returned only by an update that completes
\* a rep, and an update of pushup, bench press or bicep curl that completes a
\* rep leaves the per-rep accumulators at the values the constructor gave
\* them.
C27_UnderReachAtRepCompletion ==
    [][/\ (\E i \in DOMAIN result'.issues : result'.issues[i] \in UnderReachIssues)
            => session'.rep_count = session.rep_count + 1
       /\ (/\ session.cls \in {"pushup", "bench_press", "bicep_curl"}
           /\ session'.rep_count = session.rep_count + 1)
            => Scratch(session') =
                 Scratch(CHOOSE s \in Sessions : s.cls = session.cls)]_vars

\* a bench press rep whose bar stayed high is told so when it completes
C27_Witness ==
    /\ session.cls = "bench_press"
    /\ session.rep_count = 1
    /\ session.state = "TOP"
    /\ \E i \in DOMAIN result.issues :
          result.issues[i]
            = "Bring the bar closer to your chest at the bottom of the rep."
    /\ session.current_rep_max_drop = 0

\* C40: after every PlankSession.update posture_score lies in [40, 100] and
\* is 100 minus 15 times the average per-frame penalty so far, clamped to
\* that range; the penalty of a frame is 0.8 for a hip fault (high or
\* sagging, once), plus 0.5 for the shoulders, plus 0.4 for the neck.  (In
\* tenths: with total t over n frames, score * 10n = 1000n - 15t.)
C40_PostureScore ==
    /\ [](session.cls = "plank"
            => /\ 40 * session.posture_score.den <= session.posture_score.num
               /\ session.posture_score.num <= 100 * session.posture_score.den)
    /\ [][session.cls = "plank" =>
            LET p == (IF frame'.hip \in {"high", "low"} THEN 8 ELSE 0)
                       + (IF frame'.shoulders THEN 5 ELSE 0)
                       + (IF frame'.neck THEN 4 ELSE 0)
                n == session.frame_count + 1
                t == session.total_penalty + p
            IN  /\ session'.frame_count = n
                /\ session'.total_penalty = t
                /\ session'.posture_score.num * 10 * n
                     = session'.posture_score.den
                         * Max2(400 * n, Min2(1000 * n, 1000 * n - 15 * t))]_vars

\* three frames: every fault, then sagging hips alone, then a clean frame;
\* the average penalty is 2.5 / 3 and the score 87.5
C40_Witness ==
    /\ session.cls = "plank"
    /\ session.frame_count = 3
    /\ session.total_penalty = 25
    /\ frame = [cls |-> "plank", hip |-> "ok", shoulders |-> FALSE,
                neck |-> FALSE]
    /\ session.posture_score = [num |-> 2625, den |-> 30]

\* the two phase names of a rep-counting variant: the one it starts in, then
\* the other
PhaseNames(cls) ==
    CASE cls = "squat" -> <<"UP", "DOWN">>
      [] cls = "bicep_curl" -> <<"BOTTOM", "TOP">>
      [] OTHER -> <<"TOP", "BOTTOM">>

\* C37: a rep-counting session starts in the extended phase (UP for squat,
\* BOTTOM for bicep curl, TOP for the others), its phase is always one of the
\* variant's two, and the phase changes only from the first to the second
\* (forward) or from the second to the first (return), so forward and return
\* transitions alternate, a forward one first.
C37_PhasesAlternate ==
    /\ session.cls \in RepVariants => session.state = PhaseNames(session.cls)[1]
    /\ [](session.cls \in RepVariants
            => session.state \in {PhaseNames(session.cls)[1],
                                  PhaseNames(session.cls)[2]})
    /\ [][(session.cls \in RepVariants /\ session'.state # session.state)
            => \/ /\ session.state = PhaseNames(session.cls)[1]
                  /\ session'.state = PhaseNames(session.cls)[2]
               \/ /\ session.state = PhaseNames(session.cls)[2]
                  /\ session'.state = PhaseNames(session.cls)[1]]_vars

\* a lunge goes down again after its first rep
C37_Witness ==
    /\ session.cls = "lunge"
    /\ session.rep_count = 1
    /\ session.state = "BOTTOM"
    /\ frame.angle # None /\ frame.angle < lunge_knee_angle_bottom

\* the range-of-motion issues that test a tracked elbow angle
AngleReachIssues ==
    UnderReachIssues
      \ {"Bring the bar closer to your chest at the bottom of the rep."}

-----------------------------------------------------------------------------
(* Properties of the video loop, checked under VideoSpec *)

\* C18: after a frame without a pose observation the issue history holds no
\* issue recorded before the subject disappeared, so get_top_issue returns
\* nothing that was only observed before.
C18_AbsentFrameClearsFeedback ==
    video.absent_run > 0 =>
        /\ \A k \in 1..(Len(issue_history) - video.absent_run) :
               issue_history[k] = <<>>
        /\ top_issue \in {NoIssue, "Pose not detected"}

\* C19: a frame without a pose observation does not call session.update and
\* leaves the session unchanged, reports the session's unchanged rep_count and
\* adds the issue list "Pose not detected" to the feedback engine; so for
\* every frame of a run of absent frames.
C19_AbsentFrameSkipsRepLogic ==
    [][(video'.frames # video.frames /\ ~video'.present) =>
          /\ session' = session
          /\ result' = result /\ frame' = frame
          /\ video'.rep_count = session.rep_count
          /\ video'.issues = <<"Pose not detected">>
          /\ issue_history'[Len(issue_history')] = <<"Pose not detected">>]_vars

\* the second absent frame in a row, in the DOWN phase after one counted rep
C19_Witness ==
    /\ ~video.present
    /\ video.absent_run = 2
    /\ session.rep_count = 1
    /\ session.state = "DOWN"
    /\ video.rep_count = 1
    /\ video.issues = <<"Pose not detected">>

-----------------------------------------------------------------------------
(* Properties of process_video, checked under ProcessVideoSpec *)

\* C21: the squat rep logic fed the knee angles 170, 170, 60, 60, 170, one per
\* frame, has rep_count 0 after each of the first four frames and rep_count 1
\* after the fifth.
C21_SquatScenarioCountsOne ==
    (pv.scenario = pv.frame_index /\ pv.frame_index > 0) =>
        pv.rep_count = (IF pv.scenario = Len(SquatScenario) THEN 1 ELSE 0)

\* C23: with rep_count threaded from call to call, every time the metric of
\* squat, deadlift, lunge or pushup crosses the low threshold and on a later
\* frame the high threshold, rep_count goes up by exactly one.
C23_ReturnTransitionCounts ==
    pv.rep_count = pv.cycles

\* C24: after a frame without a pose observation the stabilizer's window is
\* empty.
C24_AbsentFrameClearsWindow ==
    (pv.frame_index > 0 /\ ~pv.keypoints) => buffer = <<>>

-----------------------------------------------------------------------------
(* Properties of angle_3pts, checked under AnglesSpec *)

\* C22: angle_3pts(a, b, c) equals angle_3pts(c, b, a), and it returns None,
\* not an error, whenever a coincides with b or c coincides with b; every
\* other result is an angle between 0 and 180 degrees.
C22_AngleSymmetricAndUndefined ==
    angle_call.called =>
        /\ angle_call.ret = angle_call.swapped
        /\ (angle_call.a = angle_call.b \/ angle_call.c = angle_call.b)
              => angle_call.ret = None
        /\ angle_call.ret \in {None} \cup 0..180

\* a right angle whose rays have different lengths, and a coincident pair
C22_Witness ==
    /\ angle_call.called
    /\ angle_call.a = <<2, 0>> /\ angle_call.b = <<0, 0>>
    /\ angle_call.c = <<0, 1>>
    /\ angle_call.ret = 90

-----------------------------------------------------------------------------
(* Properties of mark_spoken, checked under MarkSpokenSpec *)

\* C28: after mark_spoken(issue, now) with a timestamp now > 0 the engine has
\* last_spoken_issue = issue and last_spoken_time = now, and a second call in
\* a row with the same arguments leaves the two fields as the first call left
\* them.
C28_MarkSpokenIdempotent ==
    (mark_call.called /\ mark_call.now > 0) =>
        /\ last_spoken_issue = mark_call.issue
        /\ last_spoken_time = mark_call.now
        /\ mark_call.repeated =>
             <<last_spoken_issue, last_spoken_time>> = mark_call.before

\* the same call made again after the wall clock has moved on
C28_Witness ==
    /\ mark_call.called
    /\ mark_call.repeated
    /\ mark_call.issue = "A"
    /\ mark_call.now = 2
    /\ clock = 6
    /\ last_spoken_time = 2

-----------------------------------------------------------------------------
(* Properties of the pose estimator, checked under PoseSpec *)

\* C29: with smoothing enabled, infer returns a pose observation for a frame
\* only if the mean visibility was at least min_visibility on
\* stable_visibility_frames frames in a row ending with this one, the first
\* frames of a stream included.
C29_ObservationNeedsStableVisibility ==
    pose.ret = "keypoints" => pose.visible_run >= stable_visibility_frames

-----------------------------------------------------------------------------
(* Properties of the two majority votes, checked under TieBreakSpec *)

\* the first position of x in seq
FirstAt(seq, x) ==
    CHOOSE i \in DOMAIN seq : seq[i] = x /\ \A j \in DOMAIN seq : seq[j] = x => i <= j

\* whether x is, among the entries of seq with the largest number of
\* occurrences, the one that occurs first
OldestOfTheBest(seq, x) ==
    /\ \E i \in DOMAIN seq : seq[i] = x
    /\ \A i \in DOMAIN seq :
          \/ OccurrencesIn(seq, seq[i]) < OccurrencesIn(seq, x)
          \/ /\ OccurrencesIn(seq, seq[i]) = OccurrencesIn(seq, x)
             /\ FirstAt(seq, x) <= FirstAt(seq, seq[i])

-----------------------------------------------------------------------------
(* Properties of the speaker, checked under TtsSpec *)

\* the speak calls whose thread is between engine.say and the end of
\* engine.runAndWait
InEngine == {u \in Utterances : tts.at[u] = "in_engine"}

\* C34: speak is fire-and-forget: when it returns it has started no thread
\* for empty text and otherwise a thread that has not yet spoken, it has
\* neither taken the lock nor waited for any other utterance; and on the
\* pyttsx3 backend at most one thread is inside the engine's say/runAndWait
\* section at any time.
C34_FireAndForget ==
    [][/\ \A u \in Utterances :
            (~tts.returned[u] /\ tts'.returned[u])
                => /\ tts'.at[u] = (IF tts'.text[u] = "" THEN "no_thread"
                                    ELSE "started")
                   /\ tts'.lock = tts.lock
                   /\ \A v \in Utterances \ {u} : tts'.at[v] = tts.at[v]
       /\ tts'.backend = "pyttsx3"
            => Cardinality({u \in Utterances : tts'.at[u] = "in_engine"}) <= 1
      ]_vars

\* speak has returned for u3 while the thread of u1 is inside the engine and
\* the thread of u2 waits for the lock
C34_Witness ==
    /\ tts.backend = "pyttsx3"
    /\ InEngine = {"u1"}
    /\ tts.at["u2"] = "started"
    /\ tts.returned["u3"] /\ tts.at["u3"] = "started"

-----------------------------------------------------------------------------
(* Properties of the three bounded histories, checked under BuffersSpec *)

\* the last n entries of seq
LastN(seq, n) == SubSeq(seq, Max2(1, Len(seq) - n + 1), Len(seq))

\* one operation on a ring buffer of capacity cap: the buffer is kept, is
\* emptied, or takes one entry at its end and gives up its oldest when full
RingStep(old, new, cap) ==
    /\ Len(new) <= cap
    /\ \/ new = old
       \/ new = <<>>
       \/ new # <<>> /\ new = LastN(Append(old, new[Len(new)]), cap)

\* C35: the session angle history holds at most 5 values, the stabilizer
\* window at most window_size labels and the issue history at most history_len
\* frames; each operation appends at the end and evicts the oldest entry
\* first; and the label and the issue returned are counted in the window as
\* it is, so an entry that has left it adds to no count.
C35_BoundedRingBuffers ==
    [][/\ RingStep(session.angle_history, session'.angle_history, 5)
       /\ RingStep(buffer, buffer', window_size)
       /\ (sm_calls' = 1 /\ sm_prediction' # NoLabel)
            => buffer' = LastN(Append(buffer, sm_prediction'), window_size)
       /\ RingStep(issue_history, issue_history', history_len)
       /\ fb_op' = "add_frame"
            => /\ issue_history' # <<>>
               /\ issue_history' =
                    LastN(Append(issue_history,
                                 issue_history'[Len(issue_history')]),
                          history_len)
       /\ sm_stable' # NoLabel
            => min_agreement_den * OccurrencesIn(buffer', sm_stable')
                 >= min_agreement_num * Len(buffer')
       /\ (fb_op' = "get_top_issue" /\ top_issue' # NoIssue)
            => Occurrences(issue_history', top_issue')
                 >= min_persistence_frames]_vars

\* the oldest of four "lunge" votes leaves the full window as a fifth comes
\* in: four of seven is below the agreement, five of eight would not be
C35_Witness ==
    /\ sm_before = <<"lunge", "lunge", "lunge", "lunge",
                     "squat", "squat", "squat">>
    /\ sm_prediction = "lunge"
    /\ buffer = <<"lunge", "lunge", "lunge", "squat", "squat", "squat",
                  "lunge">>
    /\ sm_stable = NoLabel

-----------------------------------------------------------------------------
(* Properties of the engine's operations together, checked under EngineSpec *)

\* C38: should_speak and get_top_issue change none of the engine's fields;
\* add_frame changes the issue history only and leaves last_spoken_issue and
\* last_spoken_time as they were; mark_spoken changes these two only and
\* leaves the issue history as it was.
C38_DisjointEffects ==
    [][LET history_kept == issue_history' = issue_history
           spoken_kept == /\ last_spoken_issue' = last_spoken_issue
                          /\ last_spoken_time' = last_spoken_time
       IN  /\ engine'.op \in {"should_speak", "get_top_issue"}
                => history_kept /\ spoken_kept
           /\ engine'.op = "add_frame" => spoken_kept
           /\ engine'.op = "mark_spoken" => history_kept]_vars

\* after add_frame and mark_spoken, a should_speak that the cooldown refuses
C38_Witness ==
    /\ engine = [calls |-> 3, op |-> "should_speak"]
    /\ issue_history = <<<<"A", "B">>>>
    /\ last_spoken_issue = "B" /\ last_spoken_time = 9
    /\ call.issue = "A" /\ call.now = 9 /\ ~call.spoke

\* C39: on an engine whose mark_spoken has never been called, should_speak
\* answers true for every non-empty issue and every timestamp now > 0 passed
\* explicitly (here the timestamps other than the wall clock).
C39_FirstIssueMayBeSpoken ==
    (/\ engine.op = "should_speak"
     /\ ~mark_call.called
     /\ call.issue \in SpokenIssues
     /\ call.now > 0 /\ call.now # clock)
        => call.spoke
====
